---- MODULE Spec2Model ----
(***************************************************************************)
(* A model of ucp-mcp-server: the MCP tools of server.py, the UCPClient    *)
(* methods of ucp_client.py they call, the CheckoutSession model of        *)
(* models.py, and a merchant that answers their HTTP requests.             *)
(*                                                                         *)
(* A JSON object (a Python dict) is a function from its keys to values; a  *)
(* key the object does not carry is not in its DOMAIN.  A JSON array (a    *)
(* Python list) is a sequence.  Python's None for an optional argument is  *)
(* a key missing from the argument record.                                 *)
(***************************************************************************)
EXTENDS Integers, Sequences, FiniteSets, TLC

\* Bound: how many tool invocations a behaviour holds.
MaxCalls == 2

\* The tool invocations that may be in progress at the same time.
Procs == {1, 2}

VARIABLES
    pc,        \* pc[p]: where invocation p is suspended (the request it awaits)
    tool,      \* tool[p]: the MCP tool invocation p runs
    args,      \* args[p]: the tool's arguments
    client,    \* client[p]: UCPClient._client is not None (the transport is open)
    current,   \* current[p]: the snapshot the first GET returned
    data,      \* data[p]: the latest PUT response (setup_fulfillment's data)
    dest_id,   \* dest_id[p]: setup_fulfillment's dest_id ([] until selected)
    req,       \* req[p]: the request awaiting its response
    sent,      \* sent[p]: the requests invocation p has sent, in order
    got,       \* got[p]: the outcome of each request of sent[p], in order
    result,    \* result[p]: what the tool returned, or the fault it raised
    store,     \* the merchant's checkout session
    applied,   \* the mutating requests the merchant has applied, in order
    seenKeys,  \* the idempotency keys the merchant has seen
    nextUuid,  \* the next value uuid.uuid4() returns
    calls,     \* tool invocations started so far
    attempt,   \* attempt[p]: the logical attempt invocation p belongs to
    returned,  \* returned[p]: what the UCPClient method returned or raised
    merchant   \* "any": answers anything; "faithful": follows the protocol;
               \* "issuing": follows the protocol and chooses the session's id

vars == <<pc, tool, args, client, current, data, dest_id, req, sent, got,
          result, store, applied, seenKeys, nextUuid, calls, attempt,
          returned, merchant>>

----------------------------------------------------------------------------
(* Python dicts *)

\* {}
EmptyDict == [k \in {} |-> 0]

\* key in d
Has(d, k) == k \in DOMAIN d

\* d.get(k, default)
Get(d, k, default) == IF k \in DOMAIN d THEN d[k] ELSE default

\* d without key k
Drop(d, k) == [x \in DOMAIN d \ {k} |-> d[x]]

\* {**d, k: v}
With(d, k, v) == (k :> v) @@ d

----------------------------------------------------------------------------
(* Values *)

CheckoutId == "chk1"

LI_roses == [id |-> "li1", item |-> [id |-> "bouquet_roses"], quantity |-> 1]
LI_tulips == [id |-> "li2", item |-> [id |-> "bouquet_tulips"], quantity |-> 2]
LI_shipping == [id |-> "li3", item |-> [id |-> "shipping"], quantity |-> 1]

\* payment: {"instruments": [], "handlers": []}
EmptyPayment == [instruments |-> <<>>, handlers |-> <<>>]
ShopPayment == [instruments |-> <<>>, handlers |-> <<"shop_pay">>]
ShipPayment == [instruments |-> <<"instr_ship">>, handlers |-> <<"shop_pay">>]

UCPAgent == "profile=\"https://ucp-mcp-server.example/profile\""

----------------------------------------------------------------------------
(* ucp_client.py: requests *)

\* The headers of a GET of a session: no idempotency-key.
get_headers(request_id) ==
    ("UCP-Agent" :> UCPAgent) @@ ("request-signature" :> "test")
        @@ ("request-id" :> request_id)

\* The headers of a POST or PUT.
headers(idempotency_key, request_id) ==
    ("Content-Type" :> "application/json") @@ ("UCP-Agent" :> UCPAgent)
        @@ ("request-signature" :> "test")
        @@ ("idempotency-key" :> idempotency_key)
        @@ ("request-id" :> request_id)

\* f"{merchant_url}/checkout-sessions/{checkout_id}"
session_url(checkout_id) == <<"checkout-sessions", checkout_id>>

\* A request as httpx sends it; phase names the step of the operation.
Request(method, url, hdrs, phase) ==
    [method |-> method, url |-> url, headers |-> hdrs, phase |-> phase]

\* A request with a JSON body.
JsonRequest(method, url, hdrs, phase, payload) ==
    With(Request(method, url, hdrs, phase), "json", payload)

----------------------------------------------------------------------------
(* ucp_client.py: update_checkout's payload *)

\* A merger that forgets the snapshot's line items.
carry_line_items_forgotten(payload, cur) == payload

\* if current.get("line_items"): payload["line_items"] = current["line_items"]
carry_line_items(payload, cur) ==
    IF Has(cur, "line_items") /\ Len(cur["line_items"]) > 0
    THEN With(payload, "line_items", cur["line_items"])
    ELSE payload

\* A merger that tests the argument against None: an empty list the caller
\* passes is sent.
caller_line_items_not_none(payload, a) ==
    IF Has(a, "line_items")
    THEN With(payload, "line_items", a["line_items"])
    ELSE payload

\* if line_items: payload["line_items"] = line_items
caller_line_items(payload, a) ==
    IF Has(a, "line_items") /\ Len(a["line_items"]) > 0
    THEN With(payload, "line_items", a["line_items"])
    ELSE payload

\* A merger whose payment default is {} instead of the empty payment block.
carry_required_bare_payment(payload, cur) ==
    With(With(payload, "currency", Get(cur, "currency", "USD")),
         "payment", Get(cur, "payment", EmptyDict))

\* payload["currency"] = current.get("currency", "USD")
\* payload["payment"] = current.get("payment", {"instruments": [], "handlers": []})
carry_required(payload, cur) ==
    With(With(payload, "currency", Get(cur, "currency", "USD")),
         "payment", Get(cur, "payment", EmptyPayment))

\* A merger that always sends a discounts block, with no codes when the
\* caller supplied none.
caller_discounts_always(payload, a) ==
    With(payload, "discounts", [codes |-> Get(a, "discount_codes", <<>>)])

\* if discount_codes: payload["discounts"] = {"codes": discount_codes}
caller_discounts(payload, a) ==
    IF Has(a, "discount_codes") /\ Len(a["discount_codes"]) > 0
    THEN With(payload, "discounts", [codes |-> a["discount_codes"]])
    ELSE payload

\* The whole payload of update_checkout's PUT.
update_payload(checkout_id, cur, a) ==
    caller_discounts(
        carry_required(
            caller_line_items(
                carry_line_items([id |-> checkout_id], cur), a), cur), a)

----------------------------------------------------------------------------
(* ucp_client.py: setup_fulfillment *)

\* base_payload reads current["line_items"], ["currency"], ["payment"]: a
\* missing key raises KeyError.
base_payload_ok(cur) ==
    Has(cur, "line_items") /\ Has(cur, "currency") /\ Has(cur, "payment")

base_payload(checkout_id, cur) ==
    [id |-> checkout_id, line_items |-> cur["line_items"],
     currency |-> cur["currency"], payment |-> cur["payment"]]

\* A negotiator that remembers the destination it selected the last time
\* and preselects it in its shipping request.
phase0_payload_preselecting(base) ==
    With(base, "fulfillment",
         [methods |-> <<IF dest_id[1] = "unset" THEN [type |-> "shipping"]
                        ELSE [type |-> "shipping",
                              selected_destination_id |-> dest_id[1]]>>])

\* Step 1: {**base_payload, "fulfillment": {"methods": [{"type": "shipping"}]}}
phase0_payload(base) ==
    With(base, "fulfillment", [methods |-> <<[type |-> "shipping"]>>])

\* data.get("fulfillment", {}).get("methods", [])
methods_of(d) == Get(Get(d, "fulfillment", EmptyDict), "methods", <<>>)

\* method = methods[0]
first_method(d) == methods_of(d)[1]

\* method.get("destinations", [])
destinations_of(d) == Get(first_method(d), "destinations", <<>>)

\* method.get("groups", [])
groups_of(d) == Get(first_method(d), "groups", <<>>)

\* A negotiator that goes on when any method, not the first, has destinations.
ends_after_phase0_any_method(d) ==
    \A i \in 1..Len(methods_of(d)) :
        Len(Get(methods_of(d)[i], "destinations", <<>>)) = 0

\* if not methods: return data ... if not destinations: return data
ends_after_phase0(d) ==
    \/ Len(methods_of(d)) = 0
    \/ Len(destinations_of(d)) = 0

\* A negotiator that goes on when any group, not the first, has options.
ends_after_phase1_any_group(d) ==
    \/ Len(methods_of(d)) = 0
    \/ \A i \in 1..Len(groups_of(d)) :
          Len(Get(groups_of(d)[i], "options", <<>>)) = 0

\* if not methods: return data
\* if not groups or not groups[0].get("options"): return data
ends_after_phase1(d) ==
    \/ Len(methods_of(d)) = 0
    \/ Len(groups_of(d)) = 0
    \/ Len(Get(groups_of(d)[1], "options", <<>>)) = 0

\* destinations[0]["id"] raises IndexError on an empty list, KeyError
\* without an id
first_destination_ok(d) ==
    /\ Len(methods_of(d)) > 0
    /\ Len(destinations_of(d)) > 0
    /\ Has(destinations_of(d)[1], "id")

\* A negotiator that selects the last destination: destinations[-1]["id"].
last_destination_id(d) == destinations_of(d)[Len(destinations_of(d))]["id"]

\* A negotiator that selects from the last method: methods[-1].
last_method_destination_id(d) ==
    Get(methods_of(d)[Len(methods_of(d))], "destinations", <<[id |-> "none"]>>)[1]["id"]

\* dest_id = destinations[0]["id"]
first_destination_id(d) == destinations_of(d)[1]["id"]

\* data["line_items"], data["payment"]: KeyError if missing
phase_payload_ok(d) == Has(d, "line_items") /\ Has(d, "payment")

\* A negotiator that resends the snapshot's line items and payment.
phase1_payload_of_snapshot(base, d, dest) ==
    With(base, "fulfillment",
         [methods |-> <<[type |-> "shipping", selected_destination_id |-> dest]>>])

\* A negotiator that takes the currency, too, from the response before.
phase1_payload_currency_of_response(base, d, dest) ==
    With(With(With(With(base, "line_items", d["line_items"]),
                   "payment", d["payment"]),
              "currency", Get(d, "currency", "USD")),
         "fulfillment",
         [methods |-> <<[type |-> "shipping", selected_destination_id |-> dest]>>])

phase1_payload(base, d, dest) ==
    With(With(With(base, "line_items", d["line_items"]),
              "payment", d["payment"]),
         "fulfillment",
         [methods |-> <<[type |-> "shipping", selected_destination_id |-> dest]>>])

\* groups[0]["options"][0]["id"] raises IndexError on an empty list,
\* KeyError without options or without an id
first_option_ok(d) ==
    /\ Len(methods_of(d)) > 0
    /\ Len(groups_of(d)) > 0
    /\ Len(Get(groups_of(d)[1], "options", <<>>)) > 0
    /\ Has(groups_of(d)[1]["options"][1], "id")

\* option_id = groups[0]["options"][0]["id"]
first_option_id(d) == groups_of(d)[1]["options"][1]["id"]

\* A negotiator whose last PUT repeats the destination selection.
phase2_payload_without_option(base, d, dest, option) ==
    phase1_payload(base, d, dest)

\* A negotiator that reads the destination again off the response to the
\* destination selection when it lists any.
phase2_payload_rederiving(base, d, dest, option) ==
    With(With(With(base, "line_items", d["line_items"]),
              "payment", d["payment"]),
         "fulfillment",
         [methods |-> <<[type |-> "shipping",
                         selected_destination_id |->
                             IF first_destination_ok(d) THEN first_destination_id(d)
                             ELSE dest,
                         groups |-> <<[selected_option_id |-> option]>>]>>])

phase2_payload(base, d, dest, option) ==
    With(With(With(base, "line_items", d["line_items"]),
              "payment", d["payment"]),
         "fulfillment",
         [methods |-> <<[type |-> "shipping", selected_destination_id |-> dest,
                         groups |-> <<[selected_option_id |-> option]>>]>>])

----------------------------------------------------------------------------
(* ucp_client.py: discover, create_checkout, complete_checkout *)

\* create_checkout's payload
create_payload(items, buyer, currency) ==
    [line_items |-> [i \in 1..Len(items) |->
                       [item |-> [id |-> items[i]["id"],
                                  title |-> Get(items[i], "title", "")],
                        quantity |-> items[i]["quantity"]]],
     buyer |-> [full_name |-> Get(buyer, "name", ""),
                email |-> Get(buyer, "email", "")],
     currency |-> currency,
     payment |-> EmptyPayment]

\* complete_checkout's placeholder billing address and risk signals
BillingAddress ==
    [street_address |-> "123 Main St", address_locality |-> "Anytown",
     address_region |-> "CA", address_country |-> "US", postal_code |-> "12345"]

RiskSignals == [ip |-> "127.0.0.1", browser |-> "ucp-mcp-server"]

\* complete_checkout's payload; instr is uuid4().hex[:8]
complete_payload(a, instr) ==
    [payment_data |->
        [id |-> <<"instr", instr>>,
         handler_id |-> a["payment_handler_id"],
         handler_name |-> a["payment_handler_id"],
         type |-> "card", brand |-> a["card_brand"],
         last_digits |-> a["card_last_digits"],
         credential |-> [type |-> "token", token |-> a["card_token"]],
         billing_address |-> BillingAddress],
     risk_signals |-> RiskSignals]

\* pydantic's validation of UCPCapability(**cap) and PaymentHandler(**h)
DiscoveryValid(d) ==
    LET caps == Get(Get(d, "ucp", EmptyDict), "capabilities", <<>>)
        hs == Get(Get(d, "payment", EmptyDict), "handlers", <<>>)
    IN  /\ \A i \in 1..Len(caps) : Has(caps[i], "name") /\ Has(caps[i], "version")
        /\ \A i \in 1..Len(hs) :
              Has(hs[i], "id") /\ Has(hs[i], "name") /\ Has(hs[i], "version")

\* UCPDiscoveryResponse(version=..., capabilities=..., payment_handlers=...)
UCPDiscoveryResponse(d) ==
    [ucp_version |-> Get(Get(d, "ucp", EmptyDict), "version", "unknown"),
     capabilities |-> Get(Get(d, "ucp", EmptyDict), "capabilities", <<>>),
     payment_handlers |-> Get(Get(d, "payment", EmptyDict), "handlers", <<>>)]

----------------------------------------------------------------------------
(* ucp_client.py: the errors the client raises *)

\* except httpx.ConnectError: UCPClientError(f"Could not connect to merchant: {e}")
ConnectErrorMsg == [prefix |-> "Could not connect to merchant"]

\* A client that reports the status of a non-2xx answer but drops its body.
HTTPErrorMsg_status_only(status, text) ==
    [prefix |-> "HTTP error from merchant", status |-> status]

\* except httpx.HTTPStatusError:
\*   UCPClientError(f"HTTP error from merchant: {status_code} - {text}")
HTTPErrorMsg(status, text) ==
    [prefix |-> "HTTP error from merchant", status |-> status, body |-> text]

\* except Exception: UCPClientError(f"Error <doing>: {e}")
OtherErrorMsg(doing) == [prefix |-> doing]

\* A client without the httpx.ConnectError clause: a refused connection is
\* taken by `except Exception`.
client_error_without_connect_clause(outcome, doing) ==
    CASE outcome.kind = "http" -> HTTPErrorMsg(outcome.status, outcome.body)
      [] OTHER -> OtherErrorMsg(doing)

\* The UCPClientError a failed request raises, by the except clause it takes.
client_error(outcome, doing) ==
    CASE outcome.kind = "connect" -> ConnectErrorMsg
      [] outcome.kind = "http" -> HTTPErrorMsg(outcome.status, outcome.body)
      [] OTHER -> OtherErrorMsg(doing)

----------------------------------------------------------------------------
(* models.py *)

\* pydantic's validation of CheckoutSession(**data): id and status are
\* required, each line item needs item and quantity, each totals entry needs
\* type and amount; anything else has a default.
CheckoutSessionValid(d) ==
    /\ Has(d, "id") /\ Has(d, "status")
    /\ \A i \in 1..Len(Get(d, "line_items", <<>>)) :
          Has(d["line_items"][i], "item") /\ Has(d["line_items"][i], "quantity")
    /\ \A i \in 1..Len(Get(d, "totals", <<>>)) :
          Has(d["totals"][i], "type") /\ Has(d["totals"][i], "amount")

\* CheckoutSession(**data), for data that validates.
CheckoutSession(d) ==
    LET s == [id |-> d["id"], status |-> d["status"],
              currency |-> Get(d, "currency", "USD"),
              line_items |-> Get(d, "line_items", <<>>),
              totals |-> Get(d, "totals", <<>>),
              discounts |-> Get(d, "discounts", EmptyDict)]
    IN  IF Has(d, "order") THEN With(s, "order", d["order"]) ELSE s

\* for t in self.totals: if t.type == <type>: return t.amount; return 0
RECURSIVE amount_of(_, _)
amount_of(totals, type) ==
    IF Len(totals) = 0 THEN 0
    ELSE IF Head(totals)["type"] = type THEN Head(totals)["amount"]
    ELSE amount_of(Tail(totals), type)

\* An accessor that keeps scanning and returns the last matching entry.
total_last_match(session) ==
    LET ts == session["totals"]
        I == { i \in 1..Len(ts) : ts[i]["type"] = "total" }
    IN  IF I = {} THEN 0
        ELSE ts[CHOOSE i \in I : \A j \in I : j <= i]["amount"]

total(session) == amount_of(session["totals"], "total")

\* An accessor that returns the largest amount among the matching entries.
subtotal_largest_match(session) ==
    LET ts == session["totals"]
        I == { i \in 1..Len(ts) : ts[i]["type"] = "subtotal" }
    IN  IF I = {} THEN 0
        ELSE ts[CHOOSE i \in I : \A j \in I : ts[j]["amount"] <= ts[i]["amount"]]["amount"]

subtotal(session) == amount_of(session["totals"], "subtotal")
discount_amount(session) == amount_of(session["totals"], "discount")

----------------------------------------------------------------------------
(* server.py: what each tool returns *)

\* A tool that reports failure inside the shape of a success:
\* {"status": "error", "error": ...}.
ErrorResult_with_status(msg) == [error |-> msg, status |-> "error"]

\* except UCPClientError as e: return {"error": str(e)}
ErrorResult(msg) == [error |-> msg]

\* An exception the tool does not catch leaves the tool function.
Fault(exception) == [fault |-> exception]

IsError(r) == Has(r, "error")
IsFault(r) == Has(r, "fault")
IsSuccess(r) == Has(r, "checkout_id") \/ Has(r, "ucp_version")

\* ucp_discover's return value
discover_result(r) ==
    [ucp_version |-> r["ucp_version"],
     capabilities |-> [i \in 1..Len(r["capabilities"]) |->
                         [name |-> r["capabilities"][i]["name"],
                          version |-> r["capabilities"][i]["version"],
                          spec |-> Get(r["capabilities"][i], "spec", "None")]],
     payment_handlers |-> [i \in 1..Len(r["payment_handlers"]) |->
                             [id |-> r["payment_handlers"][i]["id"],
                              name |-> r["payment_handlers"][i]["name"],
                              version |-> r["payment_handlers"][i]["version"]]]]

\* An update tool that reports the subtotal as the total.
update_result_total_before_discount(s) ==
    [checkout_id |-> s["id"], status |-> s["status"], total |-> subtotal(s),
     subtotal |-> subtotal(s), discount_applied |-> discount_amount(s),
     currency |-> s["currency"], discounts |-> s["discounts"]]

\* ucp_checkout_update's return value
update_result(s) ==
    [checkout_id |-> s["id"], status |-> s["status"], total |-> total(s),
     subtotal |-> subtotal(s), discount_applied |-> discount_amount(s),
     currency |-> s["currency"], discounts |-> s["discounts"]]

\* ucp_checkout_create's return value
create_result(s) ==
    [checkout_id |-> s["id"], status |-> s["status"], total |-> total(s),
     subtotal |-> subtotal(s), currency |-> s["currency"],
     line_items |-> [i \in 1..Len(s["line_items"]) |->
                       [id |-> Get(s["line_items"][i]["item"], "id", "None"),
                        title |-> Get(s["line_items"][i]["item"], "title", "None"),
                        quantity |-> s["line_items"][i]["quantity"]]]]

\* A complete tool that reports the order's id, once there is one, as the
\* checkout id.
complete_result_order_as_id(s) ==
    LET r == [checkout_id |-> IF Has(s, "order") THEN Get(s["order"], "id", "None")
                              ELSE s["id"],
              status |-> s["status"], total |-> total(s), currency |-> s["currency"]]
    IN  IF Has(s, "order")
        THEN With(With(r, "order_id", Get(s["order"], "id", "None")),
                  "order_url", Get(s["order"], "permalink_url", "None"))
        ELSE r

\* A complete tool that reports the session but not its order.
complete_result_without_order(s) ==
    [checkout_id |-> s["id"], status |-> s["status"],
     total |-> total(s), currency |-> s["currency"]]

\* A complete tool that reports an order exactly when the status is complete.
complete_result_order_when_complete(s) ==
    LET r == [checkout_id |-> s["id"], status |-> s["status"],
              total |-> total(s), currency |-> s["currency"]]
        order == Get(s, "order", EmptyDict)
    IN  IF s["status"] = "complete"
        THEN With(With(r, "order_id", Get(order, "id", "None")),
                  "order_url", Get(order, "permalink_url", "None"))
        ELSE r

\* ucp_checkout_complete's return value
complete_result(s) ==
    LET r == [checkout_id |-> s["id"], status |-> s["status"],
              total |-> total(s), currency |-> s["currency"]]
    IN  IF Has(s, "order")
        THEN With(With(r, "order_id", Get(s["order"], "id", "None")),
                  "order_url", Get(s["order"], "permalink_url", "None"))
        ELSE r

\* next((t["amount"] for t in data.get("totals", []) if t["type"] == "total"), 0)
\* reads t["type"] of every entry up to the first match and t["amount"] of
\* that match: a missing key raises KeyError.
RECURSIVE raw_total_ok(_)
raw_total_ok(totals) ==
    IF Len(totals) = 0 THEN TRUE
    ELSE IF ~Has(Head(totals), "type") THEN FALSE
    ELSE IF Head(totals)["type"] = "total" THEN Has(Head(totals), "amount")
    ELSE raw_total_ok(Tail(totals))

\* ucp_checkout_set_fulfillment reads data["id"] and data["status"].
fulfillment_result_ok(d) ==
    Has(d, "id") /\ Has(d, "status") /\ raw_total_ok(Get(d, "totals", <<>>))

\* A tool whose loop over the raw totals keeps the last entry of type total.
raw_total_last(totals) ==
    LET IsTotal(t) == t["type"] = "total"
        matching == SelectSeq(totals, IsTotal)
    IN  IF matching = <<>> THEN 0 ELSE matching[Len(matching)]["amount"]

\* next((t["amount"] for t in totals if t["type"] == "total"), 0): the
\* generator reads the entries one by one and next() takes the first it
\* yields, so no entry after the first match is read; the default is 0.
RECURSIVE raw_total(_)
raw_total(totals) ==
    IF totals = <<>> THEN 0
    ELSE IF Head(totals)["type"] = "total" THEN Head(totals)["amount"]
    ELSE raw_total(Tail(totals))

\* ucp_checkout_set_fulfillment's return value; "fulfillment" is
\* data.get("fulfillment"): None when the data has no such key.
fulfillment_result(d) ==
    [checkout_id |-> d["id"], status |-> d["status"],
     total |-> raw_total(Get(d, "totals", <<>>)),
     currency |-> Get(d, "currency", "USD"),
     fulfillment |-> Get(d, "fulfillment", "None")]

----------------------------------------------------------------------------
(* The merchant: the HTTP surface the client consumes.  It holds one       *)
(* checkout session; a PUT replaces the resource (a field the payload      *)
(* omits is cleared), a POST to /complete completes it.                    *)

D1 == [id |-> "dest_1"]
D2 == [id |-> "dest_2"]
DNoId == [street_address |-> "123 Main St"]
O1 == [id |-> "opt_1"]
O2 == [id |-> "opt_2"]
ONoId == [title |-> "Standard"]

\* The fulfillment blocks a merchant answers a PUT with.
FullOffer ==
    [methods |-> <<[type |-> "shipping", destinations |-> <<D1>>,
                    groups |-> <<[options |-> <<O1, O2>>]>>]>>]

Offers ==
    { EmptyDict,                                      \* no fulfillment key
      [fulfillment |-> EmptyDict],                    \* no methods key
      [fulfillment |-> [methods |-> <<>>]],
      [fulfillment |-> [methods |-> <<[type |-> "shipping"]>>]],
      [fulfillment |-> [methods |-> <<[type |-> "shipping",
            destinations |-> <<>>, groups |-> <<>>]>>]],
      [fulfillment |-> FullOffer],
      [fulfillment |-> [methods |-> <<[type |-> "shipping",
            destinations |-> <<D2, D1>>,
            groups |-> <<[options |-> <<O2, O1>>]>>]>>]],
      \* the only destination, the only options, are the second method's
      [fulfillment |-> [methods |-> <<
            [type |-> "pickup", destinations |-> <<>>,
             groups |-> <<[options |-> <<>>]>>],
            [type |-> "shipping", destinations |-> <<D2>>,
             groups |-> <<[options |-> <<O2>>]>>]>>]],
      \* a group without an options key
      [fulfillment |-> [methods |-> <<[type |-> "shipping",
            destinations |-> <<D1>>, groups |-> <<[id |-> "g1"]>>]>>]],
      \* the first group is empty, the second is not
      [fulfillment |-> [methods |-> <<[type |-> "shipping",
            destinations |-> <<D1>>,
            groups |-> <<[options |-> <<>>], [options |-> <<O2>>]>>]>>]],
      \* destinations but no groups key
      [fulfillment |-> [methods |-> <<[type |-> "shipping",
            destinations |-> <<D1, D2>>]>>]],
      \* two methods, both offering
      [fulfillment |-> [methods |-> <<
            [type |-> "shipping", destinations |-> <<D1>>,
             groups |-> <<[options |-> <<O1>>]>>],
            [type |-> "pickup", destinations |-> <<D2>>,
             groups |-> <<[options |-> <<O2>>]>>]>>]],
      \* a destination and an option without an id
      [fulfillment |-> [methods |-> <<[type |-> "shipping",
            destinations |-> <<DNoId>>,
            groups |-> <<[options |-> <<ONoId>>]>>]>>]] }

\* The sessions the merchant may hold when the first tool is invoked.
InitStores ==
    { [id |-> CheckoutId, status |-> "ready_for_complete", currency |-> "USD",
       line_items |-> <<LI_roses>>, payment |-> EmptyPayment,
       codes |-> <<>>, selection |-> EmptyDict],
      [id |-> CheckoutId, status |-> "incomplete", currency |-> "EUR",
       line_items |-> <<LI_roses, LI_tulips>>, payment |-> ShopPayment,
       codes |-> <<>>, selection |-> EmptyDict],
      [id |-> CheckoutId, status |-> "incomplete", currency |-> "EUR",
       line_items |-> <<>>, payment |-> ShopPayment,
       codes |-> <<>>, selection |-> EmptyDict] }

\* The merchant's arithmetic: 3500 a line, 10% off with a code.
SessionTotals(s) ==
    LET sub == 3500 * Len(s["line_items"])
        off == IF Len(s["codes"]) > 0 THEN sub \div 10 ELSE 0
    IN  <<[type |-> "subtotal", amount |-> sub]>>
        \o (IF off > 0 THEN <<[type |-> "discount", amount |-> off]>> ELSE <<>>)
        \o <<[type |-> "total", amount |-> sub - off]>>

\* The JSON the merchant returns for its session.
SessionBody(s) ==
    LET b == [id |-> s["id"], status |-> s["status"],
              currency |-> s["currency"], line_items |-> s["line_items"],
              payment |-> s["payment"], totals |-> SessionTotals(s),
              discounts |-> IF Len(s["codes"]) > 0
                            THEN [codes |-> s["codes"]] ELSE EmptyDict]
    IN  IF Has(s, "order") THEN With(b, "order", s["order"]) ELSE b

\* A 2xx body that lacks a field the client expects, or that reports the
\* session in another currency.
Malformations ==
    {"none", "no_id", "no_status", "no_line_items", "no_payment",
     "no_currency", "no_amount", "other_currency"}

\* A totals list whose total entry lacks its amount.
TotalsWithoutAmount ==
    <<[type |-> "subtotal", amount |-> 3500], [type |-> "total"]>>

Malformed(b, m) ==
    CASE m = "no_id" -> Drop(b, "id")
      [] m = "no_status" -> Drop(b, "status")
      [] m = "no_line_items" -> Drop(b, "line_items")
      [] m = "no_payment" -> Drop(b, "payment")
      [] m = "no_currency" -> Drop(b, "currency")
      [] m = "no_amount" -> With(b, "totals", TotalsWithoutAmount)
      [] m = "other_currency" -> With(b, "currency", "GBP")
      [] OTHER -> b

\* What the payload's fulfillment block selects.
SelectionOf(payload) ==
    LET ms == Get(Get(payload, "fulfillment", EmptyDict), "methods", <<>>)
        m == IF Len(ms) > 0 THEN ms[1] ELSE EmptyDict
        gs == Get(m, "groups", <<>>)
        d == IF Has(m, "selected_destination_id")
             THEN [destination |-> m["selected_destination_id"]] ELSE EmptyDict
    IN  IF Len(gs) > 0 /\ Has(gs[1], "selected_option_id")
        THEN With(d, "option", gs[1]["selected_option_id"]) ELSE d

\* The session after the merchant applies a PUT; with react "ship" it
\* attaches a shipping line item and a payment instrument of its own.
AfterPut(s, payload, react) ==
    LET items == Get(payload, "line_items", <<>>)
        shipped == \E i \in 1..Len(items) : items[i] = LI_shipping
    IN  [s EXCEPT
           !["line_items"] = IF react = "ship" /\ ~shipped
                             THEN Append(items, LI_shipping) ELSE items,
           !["currency"] = Get(payload, "currency", "USD"),
           !["payment"] = IF react = "ship" THEN ShipPayment
                          ELSE Get(payload, "payment", EmptyPayment),
           !["codes"] = IF Has(payload, "discounts")
                        THEN payload["discounts"]["codes"] ELSE s["codes"],
           !["selection"] = SelectionOf(payload)]

\* The order a completed session carries.
Order == [id |-> "order-abc-123", permalink_url |-> "orders/order-abc-123"]

\* The session after the merchant applies a POST to /complete.
AfterComplete(s, withOrder) ==
    LET c == [s EXCEPT !["status"] = "complete"]
    IN  IF withOrder THEN With(c, "order", Order) ELSE c

\* The session a POST to /checkout-sessions creates.
AfterCreate(payload) ==
    [id |-> CheckoutId, status |-> "ready_for_complete",
     currency |-> payload["currency"],
     line_items |-> [i \in 1..Len(payload["line_items"]) |->
                        [id |-> "li1", item |-> payload["line_items"][i]["item"],
                         quantity |-> payload["line_items"][i]["quantity"]]],
     payment |-> payload["payment"], codes |-> <<>>, selection |-> EmptyDict]

\* The ucp block and the payment handler of the discovery document.
DiscoveryUcp ==
    [version |-> "2026-01-11",
     capabilities |-> <<[name |-> "dev.ucp.shopping.checkout",
                         version |-> "2026-01-11"]>>]

DiscoveryHandler ==
    [id |-> "shop_pay", name |-> "com.shopify.shop_pay", version |-> "2026-01-11"]

\* The discovery document, possibly lacking the ucp block or a handler's id.
DiscoveryBody(m) ==
    LET ucp == DiscoveryUcp
        handler == DiscoveryHandler
    IN  CASE m = "no_currency" -> [payment |-> [handlers |-> <<handler>>]]
          [] m = "no_id" -> [ucp |-> ucp,
                             payment |-> [handlers |-> <<Drop(handler, "id")>>]]
          [] m = "no_payment" -> [ucp |-> ucp]
          [] OTHER -> [ucp |-> ucp, payment |-> [handlers |-> <<handler>>]]

IsMutating(r) == r["method"] # "GET"

ConnectionRefused == [kind |-> "connect", applies |-> FALSE]
TimedOut == [kind |-> "timeout", applies |-> FALSE]
ResponseLost == [kind |-> "timeout", applies |-> TRUE]
NotFound ==
    [kind |-> "http", applies |-> FALSE, status |-> 404, body |-> "Checkout not found"]
ServerError ==
    [kind |-> "http", applies |-> FALSE, status |-> 500, body |-> "Internal Server Error"]

\* How a request can fail: the connection is refused (the merchant never sees
\* the request), the request times out (before or after the merchant applied
\* it), the merchant answers non-2xx, or 2xx with a body that is not JSON.
Failures(r) ==
    { ConnectionRefused, TimedOut, NotFound, ServerError,
      [kind |-> "badjson", applies |-> IsMutating(r)] }
    \cup (IF IsMutating(r) THEN {ResponseLost} ELSE {})

\* The ways the merchant changes the session of its own accord on a PUT
\* ("ship"), and answers a POST to /complete.
Reacts(r) ==
    IF r["phase"] = "complete" THEN {"order", "no_order", "order_only"}
    ELSE IF r["method"] = "PUT" THEN {"none", "ship"}
    ELSE {"none"}

\* The fulfillment blocks the merchant may answer request r with.
OffersFor(r) ==
    IF r["method"] = "PUT" /\ Has(r["json"], "fulfillment") THEN Offers
    ELSE {EmptyDict}

\* The 2xx answers with a JSON body: any reaction and offer, or a body that
\* lacks a field.
Successes(r) ==
    { [kind |-> "ok", applies |-> IsMutating(r), react |-> x, offer |-> o,
       malformation |-> "none"] : x \in Reacts(r), o \in OffersFor(r) }
    \cup
    { [kind |-> "ok", applies |-> IsMutating(r), react |-> "none",
       offer |-> IF r["method"] = "PUT" /\ Has(r["json"], "fulfillment")
                 THEN [fulfillment |-> FullOffer] ELSE EmptyDict,
       malformation |-> m] : m \in Malformations \ {"none"} }

\* A merchant that follows the protocol: well-formed 2xx answers; the
\* network may still refuse the connection or lose the response.
FaithfulOutcomes(r) ==
    { ConnectionRefused }
    \cup (IF IsMutating(r) THEN {ResponseLost} ELSE {})
    \cup { [kind |-> "ok", applies |-> IsMutating(r),
            react |-> IF r["phase"] = "complete" THEN "order" ELSE "none",
            offer |-> o, malformation |-> "none"] :
            o \in OffersFor(r) \cap {EmptyDict, [fulfillment |-> FullOffer]} }

----------------------------------------------------------------------------
(* The merchant's handling of a request *)

\* The ids the merchant may give a session it creates.
CheckoutIds == {"chk1", "chk2"}

\* A merchant that follows the protocol and issues the id of a session it
\* creates: the 2xx answer to the create names the id it chose.
IssuingOutcomes(r) ==
    IF r["phase"] # "create" THEN FaithfulOutcomes(r)
    ELSE { o \in FaithfulOutcomes(r) : o["kind"] # "ok" }
         \cup { [issues |-> id] @@ o :
                  o \in { x \in FaithfulOutcomes(r) : x["kind"] = "ok" },
                  id \in CheckoutIds }

Outcomes(r) ==
    CASE merchant = "any" -> Failures(r) \cup Successes(r)
      [] merchant = "issuing" -> IssuingOutcomes(r)
      [] OTHER -> FaithfulOutcomes(r)

HasKey(r) == Has(r["headers"], "idempotency-key")
KeyOf(r) == r["headers"]["idempotency-key"]

\* The merchant applies a mutating request unless it has seen its
\* idempotency key before.
Applies(r, o) == o["applies"] /\ IsMutating(r) /\ ~(HasKey(r) /\ KeyOf(r) \in seenKeys)

NewStore(r, o) ==
    IF ~Applies(r, o) THEN store
    ELSE CASE r["phase"] = "create" ->
                With(AfterCreate(r["json"]), "id", Get(o, "issues", CheckoutId))
           [] r["phase"] = "complete" ->
                CASE Get(o, "react", "order") = "order" -> AfterComplete(store, TRUE)
                  [] Get(o, "react", "order") = "no_order" -> AfterComplete(store, FALSE)
                  [] OTHER -> With(store, "order", [id |-> "order-abc-123"])
           [] OTHER -> AfterPut(store, r["json"], Get(o, "react", "none"))

ShippingMethod == [type |-> "shipping"]

\* The fulfillment block a GET of session s shows: what has been selected.
SelectedFulfillment(s) ==
    LET sel == s["selection"]
        method == ShippingMethod
                  @@ (IF Has(sel, "destination")
                      THEN [selected_destination_id |-> sel["destination"]]
                      ELSE EmptyDict)
                  @@ (IF Has(sel, "option")
                      THEN [groups |-> <<[selected_option_id |-> sel["option"]]>>]
                      ELSE EmptyDict)
    IN  IF sel = EmptyDict THEN EmptyDict
        ELSE [fulfillment |-> [methods |-> <<method>>]]

\* The JSON body of a 2xx answer: the discovery document, or the session
\* with the fulfillment block the merchant offers (to a PUT) or holds (to a
\* GET).
Body(r, o) ==
    IF r["phase"] = "discover" THEN DiscoveryBody(Get(o, "malformation", "none"))
    ELSE Malformed((IF r["method"] = "GET" THEN SelectedFulfillment(store)
                    ELSE Get(o, "offer", EmptyDict))
                   @@ SessionBody(NewStore(r, o)),
                   Get(o, "malformation", "none"))

\* What the client sees of the outcome; at is the number of mutations the
\* merchant had applied when it answered.
Reply(r, o) ==
    LET n == Len(applied) + (IF Applies(r, o) THEN 1 ELSE 0)
    IN  CASE o["kind"] = "ok" -> [kind |-> "ok", body |-> Body(r, o), at |-> n]
          [] o["kind"] = "http" ->
                [kind |-> "http", status |-> o["status"], body |-> o["body"], at |-> n]
          [] OTHER -> [kind |-> o["kind"], at |-> n]

\* The merchant's side of the step in which invocation p's request is answered.
Merchant(p, o) ==
    /\ store' = NewStore(req[p], o)
    /\ applied' = IF Applies(req[p], o)
                  THEN Append(applied, [key |-> KeyOf(req[p]), attempt |-> attempt[p],
                                        phase |-> req[p]["phase"], by |-> p,
                                        json |-> req[p]["json"]])
                  ELSE applied
    /\ seenKeys' = IF HasKey(req[p]) /\ o["kind"] # "connect"
                   THEN seenKeys \cup {KeyOf(req[p])} ELSE seenKeys
    /\ got' = [got EXCEPT ![p] = Append(@, Reply(req[p], o))]

----------------------------------------------------------------------------
(* The tools: invocation *)

Init ==
    /\ pc = [p \in Procs |-> "idle"]
    /\ tool = [p \in Procs |-> "none"]
    /\ args = [p \in Procs |-> EmptyDict]
    /\ client = [p \in Procs |-> FALSE]
    /\ current = [p \in Procs |-> EmptyDict]
    /\ data = [p \in Procs |-> EmptyDict]
    /\ dest_id = [p \in Procs |-> "unset"]
    /\ req = [p \in Procs |-> EmptyDict]
    /\ sent = [p \in Procs |-> <<>>]
    /\ got = [p \in Procs |-> <<>>]
    /\ returned = [p \in Procs |-> EmptyDict]
    /\ result = [p \in Procs |-> EmptyDict]
    /\ store \in InitStores
    /\ applied = <<>>
    /\ seenKeys = {}
    /\ nextUuid = 1
    /\ calls = 0
    /\ attempt = [p \in Procs |-> 0]
    /\ merchant = "any"

\* The same, against a merchant that follows the protocol.
FlowInit ==
    /\ pc = [p \in Procs |-> "idle"]
    /\ tool = [p \in Procs |-> "none"]
    /\ args = [p \in Procs |-> EmptyDict]
    /\ client = [p \in Procs |-> FALSE]
    /\ current = [p \in Procs |-> EmptyDict]
    /\ data = [p \in Procs |-> EmptyDict]
    /\ dest_id = [p \in Procs |-> "unset"]
    /\ req = [p \in Procs |-> EmptyDict]
    /\ sent = [p \in Procs |-> <<>>]
    /\ got = [p \in Procs |-> <<>>]
    /\ returned = [p \in Procs |-> EmptyDict]
    /\ result = [p \in Procs |-> EmptyDict]
    /\ store \in InitStores
    /\ applied = <<>>
    /\ seenKeys = {}
    /\ nextUuid = 1
    /\ calls = 0
    /\ attempt = [p \in Procs |-> 0]
    /\ merchant = "faithful"

\* Invocations share no client state, so against a merchant that may answer
\* anything a behaviour holds a single invocation; against one that follows
\* the protocol it holds up to MaxCalls; the life of a session, against a
\* merchant that issues its id, holds the create and up to MaxCalls
\* operations on the created session.
CallLimit ==
    CASE merchant = "any" -> 1
      [] merchant = "issuing" -> MaxCalls + 1
      [] OTHER -> MaxCalls

\* async with UCPClient() as client: the tool opens the transport, calls the
\* client method, which sends its first request r and awaits the response.
Invoke(p, t, a, r, uuids, at) ==
    /\ pc[p] \in {"idle", "done"}
    /\ calls < CallLimit
    /\ calls' = calls + 1
    /\ tool' = [tool EXCEPT ![p] = t]
    /\ args' = [args EXCEPT ![p] = a]
    /\ client' = [client EXCEPT ![p] = TRUE]
    /\ current' = [current EXCEPT ![p] = EmptyDict]
    /\ data' = [data EXCEPT ![p] = EmptyDict]
    /\ dest_id' = [dest_id EXCEPT ![p] = "unset"]
    /\ req' = [req EXCEPT ![p] = r]
    /\ sent' = [sent EXCEPT ![p] = <<r>>]
    /\ got' = [got EXCEPT ![p] = <<>>]
    /\ returned' = [returned EXCEPT ![p] = EmptyDict]
    /\ result' = [result EXCEPT ![p] = EmptyDict]
    /\ nextUuid' = nextUuid + uuids
    /\ pc' = [pc EXCEPT ![p] = at]
    \* the caller repeats its last call after an error: the same logical attempt
    /\ attempt' = [attempt EXCEPT ![p] =
                     IF tool[p] = t /\ args[p] = a /\ IsError(result[p])
                     THEN @ ELSE calls + 1]
    /\ UNCHANGED <<store, applied, seenKeys, merchant>>

\* The arguments of the update tool: discount_codes is optional, and the
\* tool has no line_items parameter.
UpdateArgsOf(id) ==
    { [checkout_id |-> id] @@ c :
        c \in {EmptyDict, [discount_codes |-> <<>>], [discount_codes |-> <<"10OFF">>]} }

UpdateArgs == UpdateArgsOf(CheckoutId)

\* ucp_checkout_update called with the arguments a.
ucp_checkout_update_with(p, a) ==
    Invoke(p, "update", a,
           Request("GET", session_url(a["checkout_id"]),
                   get_headers(nextUuid), "get"),
           1, "update_get")

ucp_checkout_update(p) ==
    \E a \in UpdateArgs : ucp_checkout_update_with(p, a)

\* The arguments with which a caller of the library passes line items to
\* UCPClient.update_checkout, which takes discount_codes and line_items; a
\* caller may pass line_items=[].
EmptyItemsArgs == [checkout_id |-> CheckoutId, line_items |-> <<>>]
TulipsArgs == [checkout_id |-> CheckoutId, line_items |-> <<LI_tulips>>]

ClientUpdateArgs == {TulipsArgs, EmptyItemsArgs}

\* async with UCPClient() as client: await client.update_checkout(...,
\* line_items=...): a call of the client method that does not go through
\* the tool; there is no tool result.
update_checkout(p) ==
    \E a \in ClientUpdateArgs :
        Invoke(p, "update_checkout", a,
               Request("GET", session_url(a["checkout_id"]),
                       get_headers(nextUuid), "get"),
               1, "update_get")

\* ucp_checkout_set_fulfillment called with the arguments a.
ucp_checkout_set_fulfillment_with(p, a) ==
    Invoke(p, "set_fulfillment", a,
           Request("GET", session_url(a["checkout_id"]), get_headers(nextUuid), "get"),
           1, "fulfillment_get")

ucp_checkout_set_fulfillment(p) ==
    ucp_checkout_set_fulfillment_with(p, [checkout_id |-> CheckoutId])

\* client.get(f"{merchant_url}/.well-known/ucp"): a GET without headers.
discover_request == Request("GET", <<".well-known", "ucp">>, EmptyDict, "discover")

DiscoverArgs == [merchant_url |-> "http://localhost:8182"]

ucp_discover(p) ==
    Invoke(p, "discover", DiscoverArgs, discover_request, 0, "discover_get")

CreateArgs ==
    { [items |-> <<[id |-> "bouquet_roses", quantity |-> 1]>>,
       buyer_name |-> "John Doe", buyer_email |-> "john.doe@example.com",
       currency |-> c] : c \in {"USD", "EUR"} }

ucp_checkout_create(p) ==
    \E a \in CreateArgs :
        Invoke(p, "create", a,
               JsonRequest("POST", <<"checkout-sessions">>,
                           headers(nextUuid, nextUuid + 1), "create",
                           create_payload(a["items"],
                                          [name |-> a["buyer_name"],
                                           email |-> a["buyer_email"]],
                                          a["currency"])),
               2, "create_post")

CompleteArgsOf(id) ==
    { [checkout_id |-> id, payment_handler_id |-> "mock_payment_handler",
       card_token |-> "success_token", card_brand |-> "Visa",
       card_last_digits |-> "4242"] }

CompleteArgs == CompleteArgsOf(CheckoutId)

\* A complete that first fetches the session to look at its status.
ucp_checkout_complete_checking_status(p) ==
    \E a \in CompleteArgs :
        Invoke(p, "complete", a,
               Request("GET", session_url(a["checkout_id"]),
                       get_headers(nextUuid), "get"),
               1, "complete_post")

\* ucp_checkout_complete called with the arguments a: complete_checkout
\* draws the instrument id, then the two header uuids.
ucp_checkout_complete_with(p, a) ==
    Invoke(p, "complete", a,
           JsonRequest("POST", <<"checkout-sessions", a["checkout_id"], "complete">>,
                       headers(nextUuid + 1, nextUuid + 2), "complete",
                       complete_payload(a, nextUuid)),
           3, "complete_post")

ucp_checkout_complete(p) ==
    \E a \in CompleteArgs : ucp_checkout_complete_with(p, a)

----------------------------------------------------------------------------
(* UCPClient used outside `async with` *)

\* UCPClientError("Client not initialized. Use async context manager.")
MisuseMsg == [prefix |-> "Client not initialized. Use async context manager."]

\* What a client method raises when _get_client() finds no transport.
MisuseError == [raised |-> "UCPClientError", msg |-> MisuseMsg]

\* A _get_client that hands out self._client without looking at it.
get_client_ok_always(c) == TRUE

\* _get_client: self._client is not None, which holds between __aenter__ and
\* __aexit__.
get_client_ok(c) == c

\* The public coroutines of UCPClient; each starts with _get_client()
\* (setup_fulfillment through get_checkout).
ClientMethods ==
    {"discover", "create_checkout", "complete_checkout", "get_checkout",
     "raw_update_checkout", "setup_fulfillment", "update_checkout"}

\* The number of uuid4() values method m draws for its first request.
first_uuids(m) ==
    CASE m = "discover" -> 0
      [] m \in {"get_checkout", "setup_fulfillment", "update_checkout"} -> 1
      [] m = "complete_checkout" -> 3
      [] OTHER -> 2

DirectCreateArgs == CHOOSE a \in CreateArgs : a["currency"] = "USD"
DirectCompleteArgs == CHOOSE a \in CompleteArgs : TRUE
DirectBuyer ==
    [name |-> DirectCreateArgs["buyer_name"], email |-> DirectCreateArgs["buyer_email"]]
DirectPutPayload == [id |-> CheckoutId]

\* The first request method m sends once _get_client() has returned.
first_request(m) ==
    CASE m = "discover" -> discover_request
      [] m \in {"get_checkout", "setup_fulfillment", "update_checkout"} ->
           Request("GET", session_url(CheckoutId), get_headers(nextUuid), "get")
      [] m = "create_checkout" ->
           JsonRequest("POST", <<"checkout-sessions">>,
                       headers(nextUuid, nextUuid + 1), "create",
                       create_payload(DirectCreateArgs["items"], DirectBuyer,
                                      DirectCreateArgs["currency"]))
      [] m = "complete_checkout" ->
           JsonRequest("POST", <<"checkout-sessions", CheckoutId, "complete">>,
                       headers(nextUuid + 1, nextUuid + 2), "complete",
                       complete_payload(DirectCompleteArgs, nextUuid))
      [] OTHER ->
           JsonRequest("PUT", session_url(CheckoutId),
                       headers(nextUuid, nextUuid + 1), "put", DirectPutPayload)

\* A caller invokes a client method on a UCPClient whose `async with` block
\* it has not entered, or has left.  _get_client() raises before the method
\* builds a request; were there a transport, the method would send its first
\* request and await the answer.
call_without_context(p) ==
    /\ pc[p] \in {"idle", "done"}
    /\ calls < CallLimit
    /\ calls' = calls + 1
    /\ \E m \in ClientMethods :
         /\ tool' = [tool EXCEPT ![p] = "direct"]
         /\ args' = [args EXCEPT ![p] = [method |-> m]]
         /\ IF get_client_ok(client[p])
            THEN /\ req' = [req EXCEPT ![p] = first_request(m)]
                 /\ sent' = [sent EXCEPT ![p] = <<first_request(m)>>]
                 /\ nextUuid' = nextUuid + first_uuids(m)
                 /\ returned' = [returned EXCEPT ![p] = EmptyDict]
                 /\ pc' = [pc EXCEPT ![p] = "direct_call"]
            ELSE /\ req' = [req EXCEPT ![p] = EmptyDict]
                 /\ sent' = [sent EXCEPT ![p] = <<>>]
                 /\ nextUuid' = nextUuid
                 /\ returned' = [returned EXCEPT ![p] = MisuseError]
                 /\ pc' = [pc EXCEPT ![p] = "idle"]
    /\ got' = [got EXCEPT ![p] = <<>>]
    /\ result' = [result EXCEPT ![p] = EmptyDict]
    /\ current' = [current EXCEPT ![p] = EmptyDict]
    /\ data' = [data EXCEPT ![p] = EmptyDict]
    /\ dest_id' = [dest_id EXCEPT ![p] = "unset"]
    /\ UNCHANGED <<client, store, applied, seenKeys, attempt, merchant>>

----------------------------------------------------------------------------
(* The tools: the steps that follow a response *)

\* A client that forgets response.raise_for_status().
request_failed_unless_status(o) == o["kind"] \notin {"ok", "http"}

\* response.raise_for_status() and response.json() inside try: the request
\* fails unless the answer is 2xx with a JSON body.
request_failed(o) == o["kind"] # "ok"

\* A client that sends every follow-up request twice.
SendNext_twice(p, r, uuids, at) ==
    /\ req' = [req EXCEPT ![p] = r]
    /\ sent' = [sent EXCEPT ![p] = Append(Append(@, r), r)]
    /\ nextUuid' = nextUuid + uuids
    /\ pc' = [pc EXCEPT ![p] = at]
    /\ UNCHANGED <<client, returned, result>>

\* A client that builds its headers once and reuses them: no new uuid4().
SendNext_reusing_headers(p, r, uuids, at) ==
    /\ req' = [req EXCEPT ![p] = r]
    /\ sent' = [sent EXCEPT ![p] = Append(@, r)]
    /\ nextUuid' = nextUuid
    /\ pc' = [pc EXCEPT ![p] = at]
    /\ UNCHANGED <<client, returned, result>>

\* The client sends its next request r, drawing uuids values of uuid4().
SendNext(p, r, uuids, at) ==
    /\ req' = [req EXCEPT ![p] = r]
    /\ sent' = [sent EXCEPT ![p] = Append(@, r)]
    /\ nextUuid' = nextUuid + uuids
    /\ pc' = [pc EXCEPT ![p] = at]
    /\ UNCHANGED <<client, returned, result>>

\* The client method returns or raises ret and the `async with` block is
\* left: UCPClient.__aexit__ starts and suspends at
\* `await self._client.aclose()`, the transport still open.
Finish(p, ret) ==
    /\ pc' = [pc EXCEPT ![p] = "closing"]
    /\ returned' = [returned EXCEPT ![p] = ret]
    /\ req' = [req EXCEPT ![p] = EmptyDict]
    /\ UNCHANGED <<client, result, sent, nextUuid>>

\* A negotiator that sends its option selection once more when the request
\* fails, and awaits the answer again.
Raise_retrying_selection(p, msg) ==
    IF pc[p] = "fulfillment_put2" /\ Len(sent[p]) < 5
    THEN /\ sent' = [sent EXCEPT ![p] = Append(@, req[p])]
         /\ UNCHANGED <<pc, client, returned, result, req, nextUuid>>
    ELSE Finish(p, [raised |-> "UCPClientError", msg |-> msg])

\* raise UCPClientError(msg)
Raise(p, msg) == Finish(p, [raised |-> "UCPClientError", msg |-> msg])

\* A tool that closes the transport by hand after its last statement instead
\* of using `async with`: an exception that escapes skips the close.
Escape_leaving_open(p, exception) ==
    /\ pc' = [pc EXCEPT ![p] = "done"]
    /\ client' = client
    /\ returned' = [returned EXCEPT ![p] = [raised |-> exception]]
    /\ result' = [result EXCEPT ![p] = Fault(exception)]
    /\ req' = [req EXCEPT ![p] = EmptyDict]
    /\ UNCHANGED <<sent, nextUuid>>

\* An exception other than UCPClientError leaves the client method.
Escape(p, exception) == Finish(p, [raised |-> exception])

\* The result tool t builds from the session its client method returned.
session_result(t, s) ==
    CASE t = "create" -> create_result(s)
      [] t = "complete" -> complete_result(s)
      [] OTHER -> update_result(s)

\* return CheckoutSession(**data)
ReturnSession(p, d) ==
    IF CheckoutSessionValid(d)
    THEN Finish(p, [value |-> CheckoutSession(d)])
    ELSE Escape(p, "ValidationError")

\* What tool t returns once its `async with` block has been left with ret:
\* {"error": str(e)} for a UCPClientError, the result built from the value
\* the client method returned, or the exception no except clause takes (a
\* KeyError of ucp_checkout_set_fulfillment's own reads included).  A call
\* of the client method that is not a tool's has no tool result.
tool_result(t, ret) ==
    CASE t = "update_checkout" -> EmptyDict
      [] Has(ret, "raised") /\ ret["raised"] = "UCPClientError" -> ErrorResult(ret["msg"])
      [] Has(ret, "raised") -> Fault(ret["raised"])
      [] t = "discover" -> discover_result(ret["value"])
      [] t = "set_fulfillment" ->
            IF fulfillment_result_ok(ret["value"])
            THEN fulfillment_result(ret["value"]) ELSE Fault("KeyError")
      [] OTHER -> session_result(t, ret["value"])

\* UCPClient.__aexit__: aclose() completes, self._client = None, and the
\* tool returns its result.
aexit_returns(p) ==
    /\ pc[p] = "closing"
    /\ pc' = [pc EXCEPT ![p] = "done"]
    /\ client' = [client EXCEPT ![p] = FALSE]
    /\ result' = [result EXCEPT ![p] = tool_result(tool[p], returned[p])]
    /\ UNCHANGED <<tool, args, current, data, dest_id, req, sent, got, returned,
                   store, applied, seenKeys, nextUuid, calls, attempt, merchant>>

\* discover: the GET is answered and discover returns or raises.  Its HTTP error
\* message is f"HTTP error from merchant: {e}": httpx's text, which names
\* the status and the URL but not the body.
discover_returns(p) ==
    /\ pc[p] = "discover_get"
    /\ \E o \in Outcomes(req[p]) :
         /\ Merchant(p, o)
         /\ IF ~request_failed(o)
            THEN IF DiscoveryValid(Body(req[p], o))
                 THEN Finish(p, [value |-> UCPDiscoveryResponse(Body(req[p], o))])
                 ELSE Escape(p, "ValidationError")
            ELSE IF o["kind"] = "http"
            THEN Raise(p, [prefix |-> "HTTP error from merchant",
                           status |-> o["status"]])
            ELSE Raise(p, client_error(o, "Error discovering merchant"))
    /\ UNCHANGED <<tool, args, current, data, dest_id, calls, attempt, merchant>>

\* create_checkout: the POST is answered and the method returns or raises.
create_returns(p) ==
    /\ pc[p] = "create_post"
    /\ \E o \in Outcomes(req[p]) :
         /\ Merchant(p, o)
         /\ IF ~request_failed(o)
            THEN ReturnSession(p, Body(req[p], o))
            ELSE Raise(p, client_error(o, "Error creating checkout"))
    /\ UNCHANGED <<tool, args, current, data, dest_id, calls, attempt, merchant>>

\* complete_checkout: the POST is answered and the method returns or raises.
complete_returns(p) ==
    /\ pc[p] = "complete_post"
    /\ \E o \in Outcomes(req[p]) :
         /\ Merchant(p, o)
         /\ IF ~request_failed(o)
            THEN ReturnSession(p, Body(req[p], o))
            ELSE Raise(p, client_error(o, "Error completing checkout"))
    /\ UNCHANGED <<tool, args, current, data, dest_id, calls, attempt, merchant>>

\* update_checkout's current: the GET's JSON, or {} after any exception
fetched_snapshot(o, body) ==
    IF request_failed(o) THEN EmptyDict ELSE body

\* update_checkout: the GET is answered (or fails) and the PUT is sent.
update_get_returns(p) ==
    /\ pc[p] = "update_get"
    /\ \E o \in Outcomes(req[p]) :
         LET cur == fetched_snapshot(o, Body(req[p], o)) IN
         /\ Merchant(p, o)
         /\ current' = [current EXCEPT ![p] = cur]
         /\ SendNext(p, JsonRequest("PUT", session_url(args[p]["checkout_id"]),
                                    headers(nextUuid, nextUuid + 1), "put",
                                    update_payload(args[p]["checkout_id"], cur, args[p])),
                     2, "update_put")
    /\ UNCHANGED <<tool, args, data, dest_id, calls, attempt, merchant>>

\* update_checkout: the PUT is answered (or fails) and the method returns or raises.
update_put_returns(p) ==
    /\ pc[p] = "update_put"
    /\ \E o \in Outcomes(req[p]) :
         /\ Merchant(p, o)
         /\ IF ~request_failed(o)
            THEN ReturnSession(p, Body(req[p], o))
            ELSE Raise(p, client_error(o, "Error updating checkout"))
    /\ UNCHANGED <<tool, args, current, data, dest_id, calls, attempt, merchant>>

\* setup_fulfillment returns data.
ReturnData(p, d) == Finish(p, [value |-> d])

\* The PUT of a negotiation phase.
phase_request(phase, checkout_id, payload) ==
    JsonRequest("PUT", session_url(checkout_id), headers(nextUuid, nextUuid + 1),
                phase, payload)

\* setup_fulfillment: get_checkout returns and the shipping request is sent.
get_checkout_returns(p) ==
    /\ pc[p] = "fulfillment_get"
    /\ \E o \in Outcomes(req[p]) :
         /\ Merchant(p, o)
         /\ IF request_failed(o)
            THEN /\ Raise(p, client_error(o, "Error fetching checkout"))
                 /\ UNCHANGED current
            ELSE /\ current' = [current EXCEPT ![p] = Body(req[p], o)]
                 /\ IF base_payload_ok(Body(req[p], o))
                    THEN SendNext(p, phase_request("phase0", args[p]["checkout_id"],
                                     phase0_payload(base_payload(args[p]["checkout_id"],
                                                                 Body(req[p], o)))),
                                  2, "fulfillment_put0")
                    ELSE Escape(p, "KeyError")
    /\ UNCHANGED <<tool, args, data, dest_id, calls, attempt, merchant>>

\* setup_fulfillment, step 2: the shipping request is answered; the first
\* destination is selected, or the negotiation ends.
phase0_returns(p) ==
    /\ pc[p] = "fulfillment_put0"
    /\ \E o \in Outcomes(req[p]) :
         /\ Merchant(p, o)
         /\ IF request_failed(o)
            THEN /\ Raise(p, client_error(o, "Error updating checkout"))
                 /\ UNCHANGED <<data, dest_id>>
            ELSE LET d == Body(req[p], o) IN
                 /\ data' = [data EXCEPT ![p] = d]
                 /\ IF ends_after_phase0(d)
                    THEN ReturnData(p, d) /\ UNCHANGED dest_id
                    ELSE IF ~first_destination_ok(d)
                    THEN Escape(p, "KeyError") /\ UNCHANGED dest_id
                    ELSE IF ~phase_payload_ok(d)
                    THEN /\ dest_id' = [dest_id EXCEPT ![p] = first_destination_id(d)]
                         /\ Escape(p, "KeyError")
                    ELSE /\ dest_id' = [dest_id EXCEPT ![p] = first_destination_id(d)]
                         /\ SendNext(p, phase_request("phase1", args[p]["checkout_id"],
                                          phase1_payload(
                                            base_payload(args[p]["checkout_id"], current[p]),
                                            d, first_destination_id(d))),
                                     2, "fulfillment_put1")
    /\ UNCHANGED <<tool, args, current, calls, attempt, merchant>>

\* setup_fulfillment, step 3: the destination selection is answered; the
\* first option is selected, or the negotiation ends.
phase1_returns(p) ==
    /\ pc[p] = "fulfillment_put1"
    /\ \E o \in Outcomes(req[p]) :
         /\ Merchant(p, o)
         /\ IF request_failed(o)
            THEN /\ Raise(p, client_error(o, "Error updating checkout"))
                 /\ UNCHANGED data
            ELSE LET d == Body(req[p], o) IN
                 /\ data' = [data EXCEPT ![p] = d]
                 /\ IF ends_after_phase1(d)
                    THEN ReturnData(p, d)
                    ELSE IF ~(first_option_ok(d) /\ phase_payload_ok(d))
                    THEN Escape(p, "KeyError")
                    ELSE SendNext(p, phase_request("phase2", args[p]["checkout_id"],
                                          phase2_payload(
                                            base_payload(args[p]["checkout_id"], current[p]),
                                            d, dest_id[p], first_option_id(d))),
                                  2, "fulfillment_put2")
    /\ UNCHANGED <<tool, args, current, dest_id, calls, attempt, merchant>>

\* setup_fulfillment: the option selection is answered and data is returned.
phase2_returns(p) ==
    /\ pc[p] = "fulfillment_put2"
    /\ \E o \in Outcomes(req[p]) :
         /\ Merchant(p, o)
         /\ IF request_failed(o)
            THEN /\ Raise(p, client_error(o, "Error updating checkout"))
                 /\ UNCHANGED data
            ELSE /\ data' = [data EXCEPT ![p] = Body(req[p], o)]
                 /\ ReturnData(p, Body(req[p], o))
    /\ UNCHANGED <<tool, args, current, dest_id, calls, attempt, merchant>>

----------------------------------------------------------------------------
(* Specifications *)

\* One tool invocation at a time, against any merchant.
Next ==
    \/ ucp_discover(1)
    \/ discover_returns(1)
    \/ ucp_checkout_create(1)
    \/ create_returns(1)
    \/ ucp_checkout_complete(1)
    \/ complete_returns(1)
    \/ ucp_checkout_update(1)
    \/ update_get_returns(1)
    \/ update_put_returns(1)
    \/ ucp_checkout_set_fulfillment(1)
    \/ get_checkout_returns(1)
    \/ phase0_returns(1)
    \/ phase1_returns(1)
    \/ phase2_returns(1)
    \/ update_checkout(1)
    \/ aexit_returns(1)
    \/ call_without_context(1)

Spec == Init /\ [][Next]_vars

\* Up to MaxCalls invocations, one after the other, against a merchant that
\* follows the protocol.
FlowSpec == FlowInit /\ [][Next]_vars

\* Updates that overlap: each invocation is suspended while it awaits a
\* response, and another may run meanwhile.
ConcNext ==
    \E p \in Procs :
        \/ ucp_checkout_update(p)
        \/ update_checkout(p)
        \/ update_get_returns(p)
        \/ update_put_returns(p)
        \/ aexit_returns(p)

ConcInit ==
    /\ FlowInit
    /\ store["line_items"] = <<LI_roses>>

ConcSpec == ConcInit /\ [][ConcNext]_vars

\* A round trip: invocation 1 creates the session, and once it has returned
\* its result the caller goes on with invocation 2, which updates the
\* session, negotiates its fulfillment or completes it, one operation after
\* the other; the result of the create stays in result[1].
TripNext ==
    \/ pc[1] = "idle" /\ ucp_checkout_create(1)
    \/ create_returns(1)
    \/ /\ pc[1] = "done" /\ IsSuccess(result[1])
       /\ \/ ucp_checkout_update(2)
          \/ ucp_checkout_set_fulfillment(2)
          \/ ucp_checkout_complete(2)
    \/ update_get_returns(2)
    \/ update_put_returns(2)
    \/ get_checkout_returns(2)
    \/ phase0_returns(2)
    \/ phase1_returns(2)
    \/ phase2_returns(2)
    \/ complete_returns(2)
    \/ aexit_returns(1)
    \/ aexit_returns(2)

TripSpec == FlowInit /\ [][TripNext]_vars

\* The life of a session: invocation 1 creates it against a merchant that
\* chooses its id, and the caller then runs up to MaxCalls operations on it,
\* one after the other as invocation 2, each called with the checkout id the
\* create reported and each finding the session as the operations before it
\* left it; the result of the create stays in result[1].
SessionInit ==
    /\ pc = [p \in Procs |-> "idle"]
    /\ tool = [p \in Procs |-> "none"]
    /\ args = [p \in Procs |-> EmptyDict]
    /\ client = [p \in Procs |-> FALSE]
    /\ current = [p \in Procs |-> EmptyDict]
    /\ data = [p \in Procs |-> EmptyDict]
    /\ dest_id = [p \in Procs |-> "unset"]
    /\ req = [p \in Procs |-> EmptyDict]
    /\ sent = [p \in Procs |-> <<>>]
    /\ got = [p \in Procs |-> <<>>]
    /\ returned = [p \in Procs |-> EmptyDict]
    /\ result = [p \in Procs |-> EmptyDict]
    /\ store \in InitStores
    /\ applied = <<>>
    /\ seenKeys = {}
    /\ nextUuid = 1
    /\ calls = 0
    /\ attempt = [p \in Procs |-> 0]
    /\ merchant = "issuing"

\* checkout["checkout_id"]: the id the caller takes from the create's result.
CreatedId == result[1]["checkout_id"]

SessionNext ==
    \/ pc[1] = "idle" /\ ucp_checkout_create(1)
    \/ create_returns(1)
    \/ aexit_returns(1)
    \/ /\ pc[1] = "done" /\ IsSuccess(result[1])
       /\ \/ \E a \in UpdateArgsOf(CreatedId) : ucp_checkout_update_with(2, a)
          \/ ucp_checkout_set_fulfillment_with(2, [checkout_id |-> CreatedId])
          \/ \E a \in CompleteArgsOf(CreatedId) : ucp_checkout_complete_with(2, a)
    \/ update_get_returns(2)
    \/ update_put_returns(2)
    \/ get_checkout_returns(2)
    \/ phase0_returns(2)
    \/ phase1_returns(2)
    \/ phase2_returns(2)
    \/ complete_returns(2)
    \/ aexit_returns(2)

SessionSpec == SessionInit /\ [][SessionNext]_vars

\* Two invocations to compare: invocation 1 runs first, any tool and possibly
\* several times, and once it has ended invocation 2 runs; what invocation 1
\* sent and received stays in sent[1] and got[1].
PairNext ==
    \E p \in Procs :
        /\ p = 1 => pc[2] = "idle"
        /\ p = 2 => pc[1] = "done"
        /\ \/ ucp_discover(p)
           \/ discover_returns(p)
           \/ ucp_checkout_create(p)
           \/ create_returns(p)
           \/ ucp_checkout_complete(p)
           \/ complete_returns(p)
           \/ ucp_checkout_update(p)
           \/ update_get_returns(p)
           \/ update_put_returns(p)
           \/ ucp_checkout_set_fulfillment(p)
           \/ get_checkout_returns(p)
           \/ phase0_returns(p)
           \/ phase1_returns(p)
           \/ phase2_returns(p)
           \/ update_checkout(p)
           \/ aexit_returns(p)

PairSpec == FlowInit /\ [][PairNext]_vars

\* A negotiation against any merchant, in which every request the client
\* awaits is answered in the end, by a response or by a failure: httpx
\* returns or raises within its timeout.
NegotiationNext ==
    \/ ucp_checkout_set_fulfillment(1)
    \/ get_checkout_returns(1)
    \/ phase0_returns(1)
    \/ phase1_returns(1)
    \/ phase2_returns(1)
    \/ aexit_returns(1)

NegotiationSpec ==
    /\ Init
    /\ [][NegotiationNext]_vars
    /\ WF_vars(get_checkout_returns(1))
    /\ WF_vars(phase0_returns(1))
    /\ WF_vars(phase1_returns(1))
    /\ WF_vars(phase2_returns(1))

----------------------------------------------------------------------------
(* models.py: the accessors of a session, applied to given totals *)

\* The longest totals list of a given session.
MaxTotals == 3

TotalTypes == {"subtotal", "discount", "total"}
TotalAmounts == {3500, 350}
TotalsEntries == [type : TotalTypes, amount : TotalAmounts]

\* The totals lists of up to MaxTotals entries; a type may occur more than
\* once, as nothing in CheckoutSession forbids it.
TotalsLists == UNION { [1..n -> TotalsEntries] : n \in 0..MaxTotals }

\* The lists that hold the entries of ts in another order.
Reorderings(ts) ==
    { [i \in 1..Len(ts) |-> ts[f[i]]] :
        f \in { g \in [1..Len(ts) -> 1..Len(ts)] :
                  \A i, j \in 1..Len(ts) : g[i] = g[j] => i = j } }

\* The JSON of a session with totals ts.
SessionData(ts) == [id |-> CheckoutId, status |-> "incomplete", totals |-> ts]

\* session.total, session.subtotal, session.discount_amount
accessors(session) ==
    [total |-> total(session), subtotal |-> subtotal(session),
     discount_amount |-> discount_amount(session)]

\* Two sessions are given: data[1], and current[1] with the same totals
\* entries in another order.
TotalsInit ==
    /\ pc = [p \in Procs |-> IF p = 1 THEN "session_given" ELSE "idle"]
    /\ tool = [p \in Procs |-> "none"]
    /\ args = [p \in Procs |-> EmptyDict]
    /\ client = [p \in Procs |-> FALSE]
    /\ \E ts \in TotalsLists : \E reordered \in Reorderings(ts) :
         /\ data = [p \in Procs |-> IF p = 1 THEN SessionData(ts) ELSE EmptyDict]
         /\ current = [p \in Procs |-> IF p = 1 THEN SessionData(reordered)
                                       ELSE EmptyDict]
    /\ dest_id = [p \in Procs |-> "unset"]
    /\ req = [p \in Procs |-> EmptyDict]
    /\ sent = [p \in Procs |-> <<>>]
    /\ got = [p \in Procs |-> <<>>]
    /\ returned = [p \in Procs |-> EmptyDict]
    /\ result = [p \in Procs |-> EmptyDict]
    /\ store \in InitStores
    /\ applied = <<>>
    /\ seenKeys = {}
    /\ nextUuid = 1
    /\ calls = 0
    /\ attempt = [p \in Procs |-> 0]
    /\ merchant = "faithful"

\* CheckoutSession(**data) is built from each and its accessors are read:
\* result[p] holds those of data[p], returned[p] those of current[p].
read_totals(p) ==
    /\ pc[p] = "session_given"
    /\ result' = [result EXCEPT ![p] = accessors(CheckoutSession(data[p]))]
    /\ returned' = [returned EXCEPT ![p] =
                      [value |-> accessors(CheckoutSession(current[p]))]]
    /\ pc' = [pc EXCEPT ![p] = "session_read"]
    /\ UNCHANGED <<tool, args, client, current, data, dest_id, req, sent, got,
                   store, applied, seenKeys, nextUuid, calls, attempt, merchant>>

\* ucp_checkout_set_fulfillment builds its result from the raw response
\* data[1], the same JSON the session of invocation 1 is built from;
\* result[2] holds it.
report_fulfillment_total(p) ==
    /\ pc[p] = "idle"
    /\ result' = [result EXCEPT ![p] = fulfillment_result(data[1])]
    /\ pc' = [pc EXCEPT ![p] = "total_reported"]
    /\ UNCHANGED <<tool, args, client, current, data, dest_id, req, sent, got,
                   returned, store, applied, seenKeys, nextUuid, calls, attempt,
                   merchant>>

TotalsNext ==
    \/ read_totals(1)
    \/ report_fulfillment_total(2)

TotalsSpec == TotalsInit /\ [][TotalsNext]_vars

----------------------------------------------------------------------------
(* Properties: what a run of the tools shows *)

\* The five tools of server.py; an invocation under another name is a client
\* method called directly and has no tool result.
ToolNames == {"discover", "create", "update", "complete", "set_fulfillment"}

\* Invocation p runs UCPClient.update_checkout: under ucp_checkout_update, or
\* called directly (the only caller that can pass line_items).
IsUpdate(p) == tool[p] \in {"update", "update_checkout"}

\* The client method of invocation p has returned or raised: its context is
\* closing the transport ("closing") or the invocation has ended ("done").
Ended(p) == pc[p] \in {"closing", "done"}

\* Invocation p is an update that has received the answer to its GET.
UpdateFetched(p) == IsUpdate(p) /\ Len(got[p]) >= 1

\* Invocation p is a negotiation that has received i answers, the last a
\* 2xx answer with a JSON body.
NegotiationAnswered(p, i) ==
    tool[p] = "set_fulfillment" /\ Len(got[p]) >= i /\ got[p][i]["kind"] = "ok"

\* The methods a response body offers, read off the body.
OfferedMethods(b) ==
    IF Has(b, "fulfillment") /\ Has(b["fulfillment"], "methods")
    THEN b["fulfillment"]["methods"] ELSE <<>>

\* The positions <<method, destination>> of the destinations a body offers.
OfferedDestinations(b) ==
    UNION { { <<i, j>> : j \in 1..Len(Get(OfferedMethods(b)[i], "destinations", <<>>)) } :
            i \in 1..Len(OfferedMethods(b)) }

\* C1: every tool invocation ends by returning a success result or an
\* {error: string} result, whatever the merchant answered; no fault leaves
\* the tool.
ToolsReturnResultOrError ==
    \A p \in Procs :
        (pc[p] = "done" /\ tool[p] \in ToolNames)
        => IsError(result[p]) \/ IsSuccess(result[p])

\* C2: an update called with discount codes only sends a PUT whose
\* line_items, currency and payment are those of the snapshot its GET
\* returned, whenever the snapshot carries them.
UpdateCarriesSnapshotExactly ==
    \A p \in Procs :
        ( /\ UpdateFetched(p)
          /\ got[p][1]["kind"] = "ok"
          /\ Has(args[p], "discount_codes") /\ args[p]["discount_codes"] # <<>>
          /\ ~Has(args[p], "line_items") )
        => \A k \in {"line_items", "currency", "payment"} :
              Has(got[p][1]["body"], k)
              => /\ Has(sent[p][2]["json"], k)
                 /\ sent[p][2]["json"][k] = got[p][1]["body"][k]

\* Updates p and q overlap: the merchant applied p's PUT as its i-th mutation
\* and q's PUT as its latest, and had answered both GETs before either.
LostUpdateInterleaving(p, q, i) ==
    /\ p # q
    /\ IsUpdate(p) /\ IsUpdate(q)
    /\ Len(sent[p]) = 2 /\ Len(sent[q]) = 2
    /\ got[p][1]["kind"] = "ok" /\ got[q][1]["kind"] = "ok"
    /\ i \in 1..Len(applied) /\ i < Len(applied)
    /\ applied[i]["key"] = KeyOf(sent[p][2])
    /\ applied[Len(applied)]["key"] = KeyOf(sent[q][2])
    /\ got[p][1]["at"] < i /\ got[q][1]["at"] < i
    /\ ~Has(args[q], "line_items")
    /\ got[q][1]["body"]["line_items"] # <<>>

\* C3: when two updates of the same session overlap so that both GETs are
\* answered before either PUT, the later PUT resends the line items of its
\* stale snapshot and the merchant's session ends with them, whatever the
\* earlier PUT had set.
LaterUpdateOverwrites ==
    \A p, q \in Procs : \A i \in 1..Len(applied) :
        LostUpdateInterleaving(p, q, i)
        => /\ Has(applied[Len(applied)]["json"], "line_items")
           /\ applied[Len(applied)]["json"]["line_items"] = got[q][1]["body"]["line_items"]
           /\ store["line_items"] = got[q][1]["body"]["line_items"]

\* The interleaving is reached, and the earlier PUT's line items are lost.
LostUpdateReached ==
    \E p, q \in Procs : \E i \in 1..Len(applied) :
        /\ LostUpdateInterleaving(p, q, i)
        /\ Has(args[p], "line_items")
        /\ applied[i]["json"]["line_items"] = args[p]["line_items"]
        /\ store["line_items"] # args[p]["line_items"]

\* C4: a merchant that deduplicates by idempotency-key applies a mutating
\* operation at most once per logical attempt, however often the caller
\* re-invokes the tool after a lost response.
RetryAppliedAtMostOnce ==
    \A i, j \in 1..Len(applied) :
        (applied[i]["attempt"] = applied[j]["attempt"]
            /\ applied[i]["phase"] = applied[j]["phase"])
        => i = j

\* The first method a body offers has no destinations, or there is none.
NoDestinationOffered(b) ==
    \/ OfferedMethods(b) = <<>>
    \/ ~Has(OfferedMethods(b)[1], "destinations")
    \/ OfferedMethods(b)[1]["destinations"] = <<>>

\* The first group of the first method a body offers has no options, or
\* there is no such group.
NoOptionOffered(b) ==
    \/ OfferedMethods(b) = <<>>
    \/ ~Has(OfferedMethods(b)[1], "groups")
    \/ OfferedMethods(b)[1]["groups"] = <<>>
    \/ ~Has(OfferedMethods(b)[1]["groups"][1], "options")
    \/ OfferedMethods(b)[1]["groups"][1]["options"] = <<>>

\* setup_fulfillment returned the i-th answer's body after i requests.
EndedWith(p, i) ==
    /\ Ended(p)
    /\ Len(sent[p]) = i
    /\ returned[p] = [value |-> got[p][i]["body"]]

\* C5: the negotiation ends without an error when the first PUT's response
\* offers no methods or no destinations, and when the second PUT's response
\* offers no methods, no groups or no options; what setup_fulfillment
\* returns is then the body of that PUT's response.
NegotiationEndsEarly ==
    \A p \in Procs :
        /\ (NegotiationAnswered(p, 2) /\ NoDestinationOffered(got[p][2]["body"]))
           => EndedWith(p, 2)
        /\ (NegotiationAnswered(p, 3) /\ NoOptionOffered(got[p][3]["body"]))
           => EndedWith(p, 3)

\* The negotiation ended after the second PUT, whose response offered a
\* group without options and differs from the snapshot.
EndedEarlyReached ==
    \E p \in Procs :
        /\ NegotiationAnswered(p, 3)
        /\ Len(OfferedMethods(got[p][3]["body"])) > 0
        /\ NoOptionOffered(got[p][3]["body"])
        /\ EndedWith(p, 3)
        /\ returned[p]["value"] # got[p][1]["body"]
        /\ pc[p] = "done" /\ IsSuccess(result[p])

\* The fulfillment method request i of invocation p sends.
SentMethod(p, i) == sent[p][i]["json"]["fulfillment"]["methods"][1]

\* C6: the second PUT selects the first destination of the first method of
\* the first PUT's response; the third PUT selects the same destination and
\* the first option of the first group of the first method of the second
\* PUT's response.
FirstDestinationThenFirstOption ==
    \A p \in Procs :
        tool[p] = "set_fulfillment"
        => /\ Len(sent[p]) >= 3
              => SentMethod(p, 3)["selected_destination_id"]
                   = OfferedMethods(got[p][2]["body"])[1]["destinations"][1]["id"]
           /\ Len(sent[p]) >= 4
              => /\ SentMethod(p, 4)["selected_destination_id"]
                      = OfferedMethods(got[p][2]["body"])[1]["destinations"][1]["id"]
                 /\ SentMethod(p, 4)["groups"][1]["selected_option_id"]
                      = OfferedMethods(got[p][3]["body"])[1]["groups"][1]["options"][1]["id"]

\* The third PUT was sent after responses that list dest_2 and opt_2 first.
BothSelectedReached ==
    \E p \in Procs :
        /\ tool[p] = "set_fulfillment"
        /\ Len(sent[p]) = 4
        /\ Len(OfferedMethods(got[p][2]["body"])[1]["destinations"]) = 2
        /\ SentMethod(p, 4)["selected_destination_id"] = "dest_2"
        /\ SentMethod(p, 4)["groups"][1]["selected_option_id"] = "opt_2"

\* C7: the line_items and payment of the second and of the third PUT are
\* those of the response to the PUT before it, not those of the snapshot.
PhasesCarryPreviousResponse ==
    \A p \in Procs :
        tool[p] = "set_fulfillment"
        => \A i \in 3..Len(sent[p]) :
              /\ sent[p][i]["json"]["line_items"] = got[p][i - 1]["body"]["line_items"]
              /\ sent[p][i]["json"]["payment"] = got[p][i - 1]["body"]["payment"]

\* The third PUT was sent after the merchant changed line items and payment.
ChangedItemsCarriedReached ==
    \E p \in Procs :
        /\ tool[p] = "set_fulfillment"
        /\ Len(sent[p]) = 4
        /\ got[p][2]["body"]["line_items"] # got[p][1]["body"]["line_items"]
        /\ got[p][3]["body"]["payment"] # got[p][1]["body"]["payment"]
        /\ sent[p][4]["json"]["line_items"] # sent[p][2]["json"]["line_items"]

\* The destination at position <<method, destination>> of a body.
DestinationAt(b, pos) == OfferedMethods(b)[pos[1]]["destinations"][pos[2]]

\* C8, as stated: when the first PUT's response offers a single destination,
\* in whichever method, the destination id selected is that destination's.
SingleDestinationSelected ==
    \A p \in Procs :
        NegotiationAnswered(p, 2)
        => \A pos \in OfferedDestinations(got[p][2]["body"]) :
              ( /\ OfferedDestinations(got[p][2]["body"]) = {pos}
                /\ Has(DestinationAt(got[p][2]["body"], pos), "id") )
              => dest_id[p] = DestinationAt(got[p][2]["body"], pos)["id"]

\* C8, amended: the destination id selected is determined by the first
\* PUT's response: it is the id of the first destination of the first
\* method, so a single destination the first method offers is selected, and
\* no destination is selected when the first method offers none.
FirstMethodDestinationSelected ==
    \A p \in Procs :
        NegotiationAnswered(p, 2)
        => LET b == got[p][2]["body"] IN
           /\ dest_id[p] # "unset"
              => dest_id[p] = OfferedMethods(b)[1]["destinations"][1]["id"]
           /\ ( /\ OfferedMethods(b) # <<>>
                /\ Has(OfferedMethods(b)[1], "destinations")
                /\ Len(OfferedMethods(b)[1]["destinations"]) = 1
                /\ Has(OfferedMethods(b)[1]["destinations"][1], "id") )
              => dest_id[p] = OfferedMethods(b)[1]["destinations"][1]["id"]
           /\ NoDestinationOffered(b) => dest_id[p] = "unset"

\* The single destination of the first of two methods was selected.
SingleDestinationReached ==
    \E p \in Procs :
        /\ NegotiationAnswered(p, 2)
        /\ Len(OfferedMethods(got[p][2]["body"])) = 2
        /\ Len(OfferedMethods(got[p][2]["body"])[1]["destinations"]) = 1
        /\ dest_id[p] = "dest_1"
        /\ Len(sent[p]) >= 3

\* What the client raises when its i-th request of a negotiation fails.
NegotiationError(p, i) ==
    client_error(got[p][i], IF i = 1 THEN "Error fetching checkout"
                            ELSE "Error updating checkout")

\* C9: within an invocation no request is sent twice (each step of the
\* operation is sent once, under its own request id), and a negotiation
\* whose GET or PUT fails ends there with that error: no further request
\* and no session.
NoResendAndFailureEnds ==
    \A p \in Procs :
        /\ \A i, j \in 1..Len(sent[p]) :
              i # j => /\ sent[p][i]["phase"] # sent[p][j]["phase"]
                       /\ sent[p][i] # sent[p][j]
        /\ tool[p] = "set_fulfillment"
           => \A i \in 1..Len(got[p]) :
                 got[p][i]["kind"] # "ok"
                 => /\ Ended(p)
                    /\ Len(sent[p]) = i
                    /\ returned[p] = [raised |-> "UCPClientError",
                                      msg |-> NegotiationError(p, i)]
                    /\ pc[p] = "done"
                       => result[p] = ErrorResult(NegotiationError(p, i))

\* A negotiation whose second PUT the merchant rejected.
FailureEndedReached ==
    \E p \in Procs :
        /\ tool[p] = "set_fulfillment"
        /\ Len(got[p]) = 3
        /\ got[p][3]["kind"] = "http"
        /\ pc[p] = "done"
        /\ IsError(result[p])

\* C10: when the GET of an update fails, the update still sends one PUT,
\* with currency "USD", the empty payment block, and line_items only as the
\* caller supplied them; the update's result is that of the PUT: its
\* session, or its error.
UpdateSurvivesFailedFetch ==
    \A p \in Procs :
        (UpdateFetched(p) /\ got[p][1]["kind"] # "ok")
        => /\ Len(sent[p]) = 2
           /\ sent[p][2]["method"] = "PUT"
           /\ sent[p][2]["json"]["currency"] = "USD"
           /\ sent[p][2]["json"]["payment"] = EmptyPayment
           /\ IF Has(args[p], "line_items") /\ args[p]["line_items"] # <<>>
              THEN /\ Has(sent[p][2]["json"], "line_items")
                   /\ sent[p][2]["json"]["line_items"] = args[p]["line_items"]
              ELSE ~Has(sent[p][2]["json"], "line_items")
           /\ Ended(p)
              => /\ Len(got[p]) = 2
                 /\ got[p][2]["kind"] # "ok"
                    => returned[p] = [raised |-> "UCPClientError",
                                      msg |-> client_error(got[p][2],
                                                           "Error updating checkout")]
                 /\ (got[p][2]["kind"] = "ok"
                       /\ CheckoutSessionValid(got[p][2]["body"]))
                    => returned[p] = [value |-> CheckoutSession(got[p][2]["body"])]
           /\ (pc[p] = "done" /\ tool[p] = "update")
              => /\ got[p][2]["kind"] # "ok"
                    => result[p] = ErrorResult(client_error(got[p][2],
                                                   "Error updating checkout"))
                 /\ (got[p][2]["kind"] = "ok"
                       /\ CheckoutSessionValid(got[p][2]["body"]))
                    => result[p] = update_result(CheckoutSession(got[p][2]["body"]))

\* An update whose GET was refused and whose PUT succeeded.
FailedFetchUpdateReached ==
    \E p \in Procs :
        /\ UpdateFetched(p) /\ tool[p] = "update"
        /\ got[p][1]["kind"] = "connect"
        /\ pc[p] = "done"
        /\ got[p][2]["kind"] = "ok"
        /\ IsSuccess(result[p])
        /\ ~Has(sent[p][2]["json"], "line_items")

\* C11: every request sent to the merchant, the discovery GET and the
\* session GETs included, carries the UCP-Agent, request-signature and
\* request-id headers.
EveryRequestCarriesHeaders ==
    \A p \in Procs : \A i \in 1..Len(sent[p]) :
        /\ Has(sent[p][i]["headers"], "UCP-Agent")
        /\ Has(sent[p][i]["headers"], "request-signature")
        /\ Has(sent[p][i]["headers"], "request-id")

\* The idempotency keys of the mutations the merchant has applied.
AppliedKeys == { applied[k]["key"] : k \in 1..Len(applied) }

\* C12: every POST and PUT carries an idempotency-key drawn for it: no other
\* request of the invocation carries it as a key or as a request id, and
\* while the request awaits its answer the merchant has neither seen nor
\* applied the key; a GET carries no idempotency-key.
IdempotencyKeysFresh ==
    \A p \in Procs :
        /\ \A i \in 1..Len(sent[p]) :
              IF sent[p][i]["method"] = "GET"
              THEN ~HasKey(sent[p][i])
              ELSE /\ HasKey(sent[p][i])
                   /\ KeyOf(sent[p][i]) < nextUuid
                   /\ \A q \in Procs : \A j \in 1..Len(sent[q]) :
                         <<q, j>> # <<p, i>>
                         => /\ HasKey(sent[q][j]) => KeyOf(sent[q][j]) # KeyOf(sent[p][i])
                            /\ Has(sent[q][j]["headers"], "request-id")
                               => sent[q][j]["headers"]["request-id"] # KeyOf(sent[p][i])
        /\ (pc[p] \notin {"idle", "closing", "done"} /\ HasKey(req[p]))
           => KeyOf(req[p]) \notin seenKeys \cup AppliedKeys

\* A second invocation's third negotiation PUT awaits its answer after the
\* merchant has applied mutations of both invocations.
LaterKeyFreshReached ==
    \E p \in Procs :
        /\ calls = 2
        /\ pc[p] = "fulfillment_put2"
        /\ Len(applied) >= 3
        /\ seenKeys # {}

\* The answer to the last request of invocation p, and the error the client
\* method raised.
LastReply(p) == got[p][Len(got[p])]
RaisedMsg(p) == returned[p]["msg"]

\* Invocation p ended because its last request failed.
EndedByFailure(p) ==
    /\ Ended(p) /\ got[p] # <<>>
    /\ LastReply(p)["kind"] # "ok"

\* C13: whichever operation the failed request belongs to, a refused
\* connection raises the network error, a non-2xx answer raises the HTTP error
\* carrying the answer's status and its body, and any other failure raises the
\* operation's own "Error <doing>" error; the three are told apart.
FailureKindsDistinguished ==
    \A p \in Procs :
        EndedByFailure(p) =>
            /\ Has(returned[p], "raised") /\ returned[p]["raised"] = "UCPClientError"
            /\ Has(returned[p], "msg")
            /\ CASE LastReply(p)["kind"] = "connect" -> RaisedMsg(p) = ConnectErrorMsg
                 [] LastReply(p)["kind"] = "http" ->
                      /\ RaisedMsg(p)["prefix"] = "HTTP error from merchant"
                      /\ Has(RaisedMsg(p), "status")
                      /\ RaisedMsg(p)["status"] = LastReply(p)["status"]
                      /\ Has(RaisedMsg(p), "body")
                      /\ RaisedMsg(p)["body"] = LastReply(p)["body"]
                 [] OTHER ->
                      /\ RaisedMsg(p)["prefix"] \notin
                            {"Could not connect to merchant", "HTTP error from merchant"}
                      /\ DOMAIN RaisedMsg(p) = {"prefix"}

\* C14: an update whose PUT is answered 404 fails with the HTTP error that
\* carries status 404 and the body of that answer, unchanged, whether the GET
\* before it succeeded or failed.
UpdateNotFoundKeepsBody ==
    \A p \in Procs :
        (/\ IsUpdate(p) /\ Len(got[p]) = 2
         /\ got[p][2]["kind"] = "http" /\ got[p][2]["status"] = 404)
        => /\ Ended(p)
           /\ Has(returned[p], "raised") /\ returned[p]["raised"] = "UCPClientError"
           /\ RaisedMsg(p)["prefix"] = "HTTP error from merchant"
           /\ RaisedMsg(p)["status"] = 404
           /\ Has(RaisedMsg(p), "body")
           /\ RaisedMsg(p)["body"] = got[p][2]["body"]
           /\ (pc[p] = "done" /\ tool[p] = "update")
              => result[p] = ErrorResult(RaisedMsg(p))

UpdateNotFoundAfterFailedFetchReached ==
    \E p \in Procs :
        /\ tool[p] = "update" /\ pc[p] = "done" /\ Len(got[p]) = 2
        /\ got[p][1]["kind"] # "ok"
        /\ got[p][2]["kind"] = "http" /\ got[p][2]["status"] = 404
        /\ got[p][2]["body"] = "Checkout not found"
        /\ IsError(result[p])

DiscoveryFields == {"ucp_version", "capabilities", "payment_handlers"}

\* C15: when the connection of the discovery GET is refused, discover raises
\* the network error "Could not connect to merchant", the tool returns it as
\* its error string, no exception escapes, and the result holds none of
\* ucp_version, capabilities and payment_handlers.
DiscoveryConnectFailureIsNetworkError ==
    \A p \in Procs :
        (/\ tool[p] = "discover" /\ got[p] # <<>>
         /\ got[p][1]["kind"] = "connect")
        => /\ Ended(p)
           /\ Has(returned[p], "raised") /\ returned[p]["raised"] = "UCPClientError"
           /\ RaisedMsg(p) = ConnectErrorMsg
           /\ ~IsFault(result[p])
           /\ DOMAIN result[p] \cap DiscoveryFields = {}
           /\ pc[p] = "done"
              => IsError(result[p]) /\ result[p]["error"] = ConnectErrorMsg

DiscoveryConnectFailureReached ==
    \E p \in Procs :
        /\ tool[p] = "discover" /\ pc[p] = "done" /\ Len(sent[p]) = 1
        /\ got[p] # <<>> /\ got[p][1]["kind"] = "connect"
        /\ IsError(result[p])

\* C16: a request that exceeds the transport's timeout raises the same
\* network error as a refused connection.
TimeoutIsNetworkError ==
    \A p \in Procs :
        (EndedByFailure(p) /\ LastReply(p)["kind"] = "timeout")
        => /\ Has(returned[p], "msg")
           /\ RaisedMsg(p) = ConnectErrorMsg

\* The request that decides the tool's result: the discovery GET, the create
\* POST, the complete POST, or the update's PUT (its second request).
MainRequestAnswered(p) ==
    /\ tool[p] \in {"discover", "create", "update", "complete"}
    /\ Len(got[p]) = (IF tool[p] = "update" THEN 2 ELSE 1)

SuccessFields == {"checkout_id", "status", "total", "order_id"}

\* C17: when the merchant cannot be reached for the main request of discover,
\* create, update or complete, or answers it non-2xx, the tool returns a result
\* whose only field is "error".
FailedMainRequestReturnsErrorOnly ==
    \A p \in Procs :
        (MainRequestAnswered(p) /\ LastReply(p)["kind"] \in {"connect", "http"})
        => /\ Ended(p)
           /\ DOMAIN result[p] \cap SuccessFields = {}
           /\ pc[p] = "done"
              => /\ IsError(result[p])
                 /\ Has(result[p]["error"], "prefix")
                 /\ DOMAIN result[p] = {"error"}

FailedCompleteReached ==
    \E p \in Procs :
        /\ tool[p] = "complete" /\ pc[p] = "done" /\ MainRequestAnswered(p)
        /\ LastReply(p)["kind"] = "http" /\ LastReply(p)["status"] = 500
        /\ DOMAIN result[p] = {"error"}

\* C18: a client method called on a client whose transport is not open,
\* because it was never opened or has been closed again, raises the
\* "Client not initialized" error and sends no request: nothing is in flight
\* and nothing was sent.
MisuseRaisesAndSendsNothing ==
    \A p \in Procs :
        tool[p] = "direct" =>
            /\ ~client[p]
            /\ Has(returned[p], "raised") /\ returned[p]["raised"] = "UCPClientError"
            /\ Has(returned[p], "msg") /\ returned[p]["msg"] = MisuseMsg
            /\ sent[p] = <<>> /\ req[p] = EmptyDict /\ got[p] = <<>>

MisuseAfterCloseReached ==
    \E p \in Procs :
        /\ tool[p] = "direct" /\ args[p]["method"] = "setup_fulfillment"
        /\ calls = 2 /\ applied # <<>>
        /\ returned[p] = MisuseError

\* C19: the transport of an invocation is open exactly while the invocation
\* runs: a tool opens it when it starts, and it is closed once the tool has
\* ended, whether with a result, an error result or an exception that escaped
\* between two requests of the negotiation.
TransportOpenOnlyWhileRunning ==
    \A p \in Procs :
        client[p] <=> pc[p] \notin {"idle", "done"}

FaultBetweenPhasesClosedReached ==
    \E p \in Procs :
        /\ tool[p] = "set_fulfillment" /\ pc[p] = "done"
        /\ IsFault(result[p]) /\ Len(sent[p]) = 3 /\ Len(got[p]) = 3
        /\ ~client[p]

\* The accessor of each totals type.
AccessorOf == [total |-> "total", subtotal |-> "subtotal", discount |-> "discount_amount"]

\* The positions of the entries of type t in the totals of session d.
EntriesOfType(d, t) == { i \in 1..Len(d["totals"]) : d["totals"][i]["type"] = t }

\* C20 as stated: an accessor returns 0 when no entry has its type and the
\* amount of an entry of its type otherwise, and returns the same for the
\* same entries in any other order.
AccessorsIndependentOfOrder ==
    \A p \in Procs :
        pc[p] = "session_read" =>
            \A t \in TotalTypes :
                /\ EntriesOfType(data[p], t) = {} => result[p][AccessorOf[t]] = 0
                /\ EntriesOfType(data[p], t) # {} =>
                      \E i \in EntriesOfType(data[p], t) :
                          result[p][AccessorOf[t]] = data[p]["totals"][i]["amount"]
                /\ returned[p]["value"][AccessorOf[t]] = result[p][AccessorOf[t]]

\* C20: total() is 0 when no totals entry has type total and the amount of the
\* first entry of type total otherwise; when at most one entry has the type,
\* the result is the same for the same entries in any other order.  The same
\* holds of subtotal() and discount_amount() with their types.
AccessorsReturnFirstMatch ==
    \A p \in Procs :
        pc[p] = "session_read" =>
            \A t \in TotalTypes :
                LET I == EntriesOfType(data[p], t)
                    first == CHOOSE i \in I : \A j \in I : i <= j
                IN  /\ I = {} => result[p][AccessorOf[t]] = 0
                    /\ I # {} =>
                          result[p][AccessorOf[t]] = data[p]["totals"][first]["amount"]
                    /\ Cardinality(I) <= 1 =>
                          returned[p]["value"][AccessorOf[t]] = result[p][AccessorOf[t]]

OrderChangesTotalReached ==
    \E p \in Procs :
        /\ pc[p] = "session_read"
        /\ Len(data[p]["totals"]) = 3
        /\ data[p]["totals"][1]["type"] = "subtotal"
        /\ data[p]["totals"][2]["type"] = "total"
        /\ data[p]["totals"][2]["amount"] = 3500
        /\ data[p]["totals"][3]["type"] = "total"
        /\ data[p]["totals"][3]["amount"] = 350
        /\ result[p]["total"] = 3500
        /\ returned[p]["value"]["total"] = 350

\* Invocation 2 is an update with the code 10OFF and no line items of the
\* caller's, as ucp_checkout_update issues it, after invocation 1 created the
\* session; the merchant has answered its PUT with a positive discount.
DiscountedAfterCreate ==
    /\ tool[1] = "create" /\ pc[1] = "done" /\ IsSuccess(result[1])
    /\ tool[2] = "update" /\ pc[2] = "done" /\ Len(got[2]) = 2
    /\ Has(args[2], "discount_codes") /\ args[2]["discount_codes"] = <<"10OFF">>
    /\ ~Has(args[2], "line_items")
    /\ got[2][2]["kind"] = "ok"
    /\ \E i \in 1..Len(got[2][2]["body"]["totals"]) :
          /\ got[2][2]["body"]["totals"][i]["type"] = "discount"
          /\ got[2][2]["body"]["totals"][i]["amount"] > 0

\* C21: after a create, an update with a discount code the merchant honours
\* reports a positive discount and a total strictly below the total the
\* create reported.
DiscountLowersTotal ==
    DiscountedAfterCreate =>
        /\ IsSuccess(result[2])
        /\ result[2]["discount_applied"] > 0
        /\ result[2]["total"] < result[1]["total"]

DiscountedRoundTripReached ==
    /\ DiscountedAfterCreate
    /\ result[1]["total"] = 3500
    /\ result[2]["subtotal"] = 3500
    /\ result[2]["discount_applied"] = 350
    /\ result[2]["total"] = 3150

\* Invocation 2 completed the session invocation 1 created, and the merchant
\* answered the POST with the completed session.
CompletedAfterCreate ==
    /\ tool[1] = "create" /\ pc[1] = "done" /\ IsSuccess(result[1])
    /\ tool[2] = "complete" /\ pc[2] = "done" /\ Len(got[2]) = 1
    /\ got[2][1]["kind"] = "ok"

\* C22: completing the created session, which is at ready_for_complete,
\* returns status complete, the session's total, and the id and the permalink
\* of the order in the merchant's answer.
CompleteReturnsOrder ==
    CompletedAfterCreate =>
        /\ IsSuccess(result[2])
        /\ result[2]["status"] = "complete"
        /\ result[2]["total"] = amount_of(SessionTotals(store), "total")
        /\ Has(result[2], "order_id") /\ Has(result[2], "order_url")
        /\ result[2]["order_id"] = got[2][1]["body"]["order"]["id"]
        /\ result[2]["order_url"] = got[2][1]["body"]["order"]["permalink_url"]
        /\ result[2]["order_id"] = store["order"]["id"]
        /\ result[2]["order_url"] = store["order"]["permalink_url"]

CompletedRoundTripReached ==
    /\ CompletedAfterCreate
    /\ result[1]["status"] = "ready_for_complete"
    /\ result[2]["status"] = "complete"
    /\ result[2]["total"] = 3500
    /\ result[2]["order_id"] = "order-abc-123"
    /\ result[2]["order_url"] = "orders/order-abc-123"

\* C23: on a session a create made, whose id the merchant chose, every
\* update, negotiation and completion of a sequence of them, each called
\* with the id the create reported and each finding the session as the ones
\* before it left it, reports that id whenever the merchant answers its last
\* request with the session.
CheckoutIdPreserved ==
    (/\ tool[1] = "create" /\ pc[1] = "done" /\ IsSuccess(result[1])
     /\ pc[2] = "done")
    => /\ tool[2] \in {"update", "set_fulfillment", "complete"}
       /\ args[2]["checkout_id"] = result[1]["checkout_id"]
       /\ LastReply(2)["kind"] = "ok" => Has(result[2], "checkout_id")
       /\ Has(result[2], "checkout_id")
          => /\ result[2]["checkout_id"] = result[1]["checkout_id"]
             /\ result[2]["checkout_id"] = store["id"]

\* The session was given the id chk2, then updated with a discount code and
\* negotiated or updated again, and at last completed: the third operation
\* after the create, or the second, reports chk2.
SequenceSameIdReached ==
    /\ tool[1] = "create" /\ pc[1] = "done" /\ IsSuccess(result[1])
    /\ result[1]["checkout_id"] = "chk2"
    /\ calls >= 3
    /\ tool[2] = "complete" /\ pc[2] = "done"
    /\ store["codes"] = <<"10OFF">>
    /\ Len(applied) >= 3
    /\ Has(result[2], "order_id")
    /\ result[2]["checkout_id"] = "chk2"

\* The snapshot update p works from: the JSON its GET returned, or nothing
\* when the GET failed.
SnapshotOf(p) ==
    IF got[p][1]["kind"] = "ok" THEN got[p][1]["body"] ELSE EmptyDict

\* The payload of update p's PUT.
PutPayload(p) == sent[p][2]["json"]

\* Update p has sent its PUT.
UpdatePutSent(p) == UpdateFetched(p) /\ Len(sent[p]) >= 2

\* C24: the PUT of an update carries the caller's line items when the caller
\* gave any, otherwise the line_items of the snapshot when the snapshot has
\* the field, and no line_items key when neither is there.
UpdateLineItemsRule ==
    \A p \in Procs :
        UpdatePutSent(p) =>
            IF Has(args[p], "line_items")
            THEN /\ Has(PutPayload(p), "line_items")
                 /\ PutPayload(p)["line_items"] = args[p]["line_items"]
            ELSE IF Has(SnapshotOf(p), "line_items")
            THEN /\ Has(PutPayload(p), "line_items")
                 /\ PutPayload(p)["line_items"] = SnapshotOf(p)["line_items"]
            ELSE ~Has(PutPayload(p), "line_items")

\* The caller of update p supplied at least one discount code.
CodesSupplied(p) ==
    Has(args[p], "discount_codes") /\ args[p]["discount_codes"] # <<>>

\* C25: the PUT of an update carries discounts = {codes: the supplied codes}
\* when the caller supplied codes and no discounts key when it supplied none,
\* whether or not the snapshot carries discounts.
UpdateDiscountsOnlyFromCaller ==
    \A p \in Procs :
        UpdatePutSent(p) =>
            IF CodesSupplied(p)
            THEN /\ Has(PutPayload(p), "discounts")
                 /\ DOMAIN PutPayload(p)["discounts"] = {"codes"}
                 /\ PutPayload(p)["discounts"]["codes"] = args[p]["discount_codes"]
            ELSE ~Has(PutPayload(p), "discounts")

SnapshotDiscountsNotCarriedReached ==
    \E p \in Procs :
        /\ UpdatePutSent(p) /\ ~CodesSupplied(p)
        /\ got[p][1]["kind"] = "ok"
        /\ Has(SnapshotOf(p)["discounts"], "codes")
        /\ SnapshotOf(p)["discounts"]["codes"] = <<"10OFF">>
        /\ ~Has(PutPayload(p), "discounts")

\* C26: an update sends one GET of the session and then one PUT to the same
\* session and nothing else: the PUT goes out only once the GET has been
\* answered, successfully or not, and the update ends only once the PUT has
\* been answered.
UpdateIsOneGetThenOnePut ==
    \A p \in Procs :
        (IsUpdate(p) /\ sent[p] # <<>>) =>
            /\ Len(sent[p]) <= 2
            /\ Len(got[p]) <= Len(sent[p]) /\ Len(sent[p]) <= Len(got[p]) + 1
            /\ sent[p][1]["method"] = "GET"
            /\ sent[p][1]["url"] = session_url(args[p]["checkout_id"])
            /\ Len(sent[p]) = 2 =>
                  /\ Len(got[p]) >= 1
                  /\ sent[p][2]["method"] = "PUT"
                  /\ sent[p][2]["url"] = sent[p][1]["url"]
            /\ Len(got[p]) >= 1 => Len(sent[p]) = 2
            /\ Ended(p) <=> Len(got[p]) = 2

PutAwaitedAfterFailedGetReached ==
    \E p \in Procs :
        /\ tool[p] = "update" /\ pc[p] = "update_put"
        /\ Len(sent[p]) = 2 /\ Len(got[p]) = 1
        /\ got[p][1]["kind"] = "http"
        /\ req[p] = sent[p][2]

\* What the i-th request of a negotiation is: the GET, then the PUT that asks
\* for shipping, the PUT that selects a destination, the PUT that selects a
\* destination and an option.
NegotiationMethods == <<"GET", "PUT", "PUT", "PUT">>
NegotiationSelects == <<{}, {}, {"destination"}, {"destination", "option"}>>

\* C27: a negotiation sends GET, shipping request, destination selection and
\* option selection in this order, or a prefix of it; a request goes out only
\* once every request before it has been answered successfully, so at most
\* one is outstanding, and the negotiation has ended exactly when none is.
NegotiationStrictlySequential ==
    \A p \in Procs :
        (tool[p] = "set_fulfillment" /\ sent[p] # <<>>) =>
            /\ Len(sent[p]) <= 4
            /\ Len(got[p]) <= Len(sent[p]) /\ Len(sent[p]) <= Len(got[p]) + 1
            /\ \A i \in 1..Len(sent[p]) :
                 /\ sent[p][i]["method"] = NegotiationMethods[i]
                 /\ sent[p][i]["url"] = session_url(args[p]["checkout_id"])
                 /\ i > 1 => /\ Has(sent[p][i]["json"], "fulfillment")
                             /\ DOMAIN SelectionOf(sent[p][i]["json"])
                                  = NegotiationSelects[i]
                 /\ i < Len(sent[p]) => got[p][i]["kind"] = "ok"
            /\ Len(sent[p]) = Len(got[p]) + 1 <=> ~Ended(p)
            /\ ~Ended(p) => req[p] = sent[p][Len(sent[p])]

OptionSelectionAwaitedReached ==
    \E p \in Procs :
        /\ tool[p] = "set_fulfillment" /\ pc[p] = "fulfillment_put2"
        /\ Len(sent[p]) = 4 /\ Len(got[p]) = 3
        /\ DOMAIN SelectionOf(sent[p][4]["json"]) = {"destination", "option"}

\* C28: an update with discount codes only leaves the rest of the session as
\* it is: when the session holds a negotiated destination and option, the
\* update's PUT carries that fulfillment selection, so a merchant that clears
\* what a PUT omits keeps it.
UpdateResendsFulfillment ==
    \A p \in Procs :
        (/\ UpdatePutSent(p)
         /\ CodesSupplied(p) /\ ~Has(args[p], "line_items")
         /\ Has(SnapshotOf(p), "fulfillment")
         /\ DOMAIN SelectionOf(SnapshotOf(p)) = {"destination", "option"})
        => /\ Has(PutPayload(p), "fulfillment")
           /\ SelectionOf(PutPayload(p)) = SelectionOf(SnapshotOf(p))

\* C29: a complete sends one request, the POST to the session's complete
\* endpoint, and ends with its answer: no GET of the session comes first,
\* whatever the session's status.
CompleteIsOnePost ==
    \A p \in Procs :
        (tool[p] = "complete" /\ sent[p] # <<>>) =>
            /\ Len(sent[p]) = 1
            /\ sent[p][1]["method"] = "POST"
            /\ sent[p][1]["url"] = <<"checkout-sessions", args[p]["checkout_id"], "complete">>
            /\ Has(sent[p][1]["json"], "payment_data")
            /\ Len(got[p]) <= 1
            /\ Ended(p) <=> Len(got[p]) = 1

CompleteOfCompletedSessionReached ==
    \E p \in Procs :
        /\ tool[p] = "complete" /\ pc[p] = "complete_post"
        /\ store["status"] = "complete" /\ Has(store, "order")
        /\ req[p] = sent[p][1] /\ req[p]["method"] = "POST"

\* What a request is apart from the values of uuid4() it holds: its method,
\* its URL, the names of its headers, and its payload without the id of the
\* payment instrument.
WithoutGenerated(r) ==
    [method |-> r["method"], url |-> r["url"], header_names |-> DOMAIN r["headers"],
     json |-> IF ~Has(r, "json") THEN EmptyDict
              ELSE IF Has(r["json"], "payment_data")
              THEN With(r["json"], "payment_data", Drop(r["json"]["payment_data"], "id"))
              ELSE r["json"]]

\* What the client sees of an answer: its kind, and its status and body.
SeenOf(reply) == Drop(reply, "at")

\* Invocations 1 and 2 were given the same answers to their first n requests.
SameAnswers(n) ==
    \A j \in 1..n : SeenOf(got[1][j]) = SeenOf(got[2][j])

\* C30: two invocations of the same tool with the same arguments send the
\* same requests, apart from generated ids and keys, for as long as they are
\* given the same answers, whatever the first has left behind and whatever
\* ran before them.
InvocationsShareNoState ==
    (tool[1] = tool[2] /\ args[1] = args[2]) =>
        \A i \in 1..Len(sent[1]) :
            (i <= Len(sent[2]) /\ SameAnswers(i - 1))
            => WithoutGenerated(sent[1][i]) = WithoutGenerated(sent[2][i])

SameNegotiationRepeatedReached ==
    /\ tool[1] = "set_fulfillment" /\ tool[2] = "set_fulfillment"
    /\ pc[1] = "done" /\ Len(got[1]) = 3 /\ got[1][3]["kind"] = "connect"
    /\ dest_id[1] = "dest_1"
    /\ Len(sent[2]) >= 3 /\ SameAnswers(2)
    /\ WithoutGenerated(sent[2][3]) = WithoutGenerated(sent[1][3])

\* The totals of session d up to and including position i.
TotalsUpTo(d, i) == SubSeq(d["totals"], 1, i)

\* C31: when several totals entries have the same type, the accessor of that
\* type returns the amount of the first of them in sequence order; the later
\* ones do not count: the accessor returns what it returns for the list cut
\* after that first entry.
FirstOfSeveralEntriesWins ==
    \A p \in Procs :
        pc[p] = "session_read" =>
            \A t \in TotalTypes :
                LET I == EntriesOfType(data[p], t)
                    first == CHOOSE i \in I : \A j \in I : i <= j
                IN  Cardinality(I) >= 2 =>
                      /\ result[p][AccessorOf[t]] = data[p]["totals"][first]["amount"]
                      /\ result[p][AccessorOf[t]]
                           = accessors(CheckoutSession(
                                 SessionData(TotalsUpTo(data[p], first))))[AccessorOf[t]]

SeveralSubtotalsReadReached ==
    \E p \in Procs :
        /\ pc[p] = "session_read"
        /\ Len(data[p]["totals"]) = 3
        /\ data[p]["totals"][1]["type"] = "total"
        /\ data[p]["totals"][2]["type"] = "subtotal"
        /\ data[p]["totals"][2]["amount"] = 350
        /\ data[p]["totals"][3]["type"] = "subtotal"
        /\ data[p]["totals"][3]["amount"] = 3500
        /\ result[p]["subtotal"] = 350

\* The tools whose result reports the totals of a session.
SessionTools == {"create", "update", "complete", "set_fulfillment"}

\* The positions of the totals entries of body b that carry no amount.
EntriesWithoutAmount(b) ==
    { i \in 1..Len(Get(b, "totals", <<>>)) : ~Has(b["totals"][i], "amount") }

\* C32: a totals entry without an amount counts as amount 0: an operation
\* whose last answer holds such an entry, and is a session otherwise, returns
\* a success result, and reports 0 for the total whose entry has no amount.
AbsentAmountTreatedAsZero ==
    \A p \in Procs :
        (/\ pc[p] = "done" /\ tool[p] \in SessionTools /\ got[p] # <<>>
         /\ LastReply(p)["kind"] = "ok"
         /\ Has(LastReply(p)["body"], "id") /\ Has(LastReply(p)["body"], "status")
         /\ EntriesWithoutAmount(LastReply(p)["body"]) # {})
        => /\ IsSuccess(result[p])
           /\ \A i \in EntriesWithoutAmount(LastReply(p)["body"]) :
                 LastReply(p)["body"]["totals"][i]["type"] = "total"
                 => result[p]["total"] = 0

\* How far a negotiation has come, by the request it awaits; after the last
\* answer the transport is closed, then the tool returns.
PhaseRank ==
    [fulfillment_get |-> 1, fulfillment_put0 |-> 2, fulfillment_put1 |-> 3,
     fulfillment_put2 |-> 4, closing |-> 5, done |-> 6]

\* C33: a negotiation whose every request is answered ends, after one GET
\* and at most three PUTs, with what setup_fulfillment returned or raised;
\* every answer takes it to a later phase, never back to an earlier one.
NegotiationTerminates ==
    /\ (tool[1] = "set_fulfillment" /\ ~Ended(1))
         ~> (/\ Ended(1)
             /\ Len(sent[1]) <= 4 /\ Len(got[1]) = Len(sent[1])
             /\ sent[1][1]["method"] = "GET"
             /\ \A i \in 2..Len(sent[1]) : sent[1][i]["method"] = "PUT"
             /\ Has(returned[1], "value") \/ Has(returned[1], "raised"))
    /\ [][(tool[1] = "set_fulfillment" /\ got[1] # got'[1])
            => /\ pc[1] \in DOMAIN PhaseRank /\ pc'[1] \in DOMAIN PhaseRank
               /\ PhaseRank[pc[1]] < PhaseRank[pc'[1]]]_vars

NegotiationRanToEndReached ==
    /\ tool[1] = "set_fulfillment" /\ pc[1] = "done"
    /\ Len(sent[1]) = 4 /\ Len(got[1]) = 4
    /\ got[1][4]["kind"] = "ok"
    /\ Has(returned[1], "value")

\* The ids of the destinations the first method of body b offers, and of the
\* options its first group offers.
FirstMethodDestinationIds(b) ==
    IF NoDestinationOffered(b) THEN {}
    ELSE { Get(OfferedMethods(b)[1]["destinations"][j], "id", "none") :
             j \in 1..Len(OfferedMethods(b)[1]["destinations"]) }

FirstGroupOptionIds(b) ==
    IF NoOptionOffered(b) THEN {}
    ELSE { Get(OfferedMethods(b)[1]["groups"][1]["options"][j], "id", "none") :
             j \in 1..Len(OfferedMethods(b)[1]["groups"][1]["options"]) }

\* C34: the negotiation stops after the first PUT, returning its response,
\* exactly when the response has no methods or its first method has no
\* destinations, and after the second PUT exactly when the response has no
\* methods, its first method no groups or its first group no options; what
\* later methods and groups offer decides nothing, and a destination or
\* option that is selected is one of the first method's, the first group's.
EarlyEndDependsOnFirstOnly ==
    \A p \in Procs :
        /\ NegotiationAnswered(p, 2)
           => (EndedWith(p, 2) <=> NoDestinationOffered(got[p][2]["body"]))
        /\ NegotiationAnswered(p, 3)
           => (EndedWith(p, 3) <=> NoOptionOffered(got[p][3]["body"]))
        /\ (tool[p] = "set_fulfillment" /\ Len(sent[p]) >= 3)
           => SentMethod(p, 3)["selected_destination_id"]
                \in FirstMethodDestinationIds(got[p][2]["body"])
        /\ (tool[p] = "set_fulfillment" /\ Len(sent[p]) >= 4)
           => SentMethod(p, 4)["groups"][1]["selected_option_id"]
                \in FirstGroupOptionIds(got[p][3]["body"])

\* The negotiation stopped after the first PUT although the second method of
\* its response offers a destination.
LaterMethodIgnoredReached ==
    \E p \in Procs :
        /\ NegotiationAnswered(p, 2) /\ EndedWith(p, 2)
        /\ Len(OfferedMethods(got[p][2]["body"])) = 2
        /\ NoDestinationOffered(got[p][2]["body"])
        /\ Len(OfferedMethods(got[p][2]["body"])[2]["destinations"]) = 1
        /\ dest_id[p] = "unset"

\* The arguments a with each empty list left out, as if the caller had
\* omitted it.
OmittingEmpty(a) ==
    [k \in { x \in DOMAIN a :
               x \in {"line_items", "discount_codes"} => a[x] # <<>> } |-> a[k]]

\* C35: an update cannot clear: an empty list of line items or of discount
\* codes sends the payload that omitting the argument sends, so whatever
\* updates are called, no PUT carries an empty line_items list or an empty
\* list of discount codes.
UpdateCannotClear ==
    \A p \in Procs :
        UpdatePutSent(p) =>
            /\ PutPayload(p) = update_payload(args[p]["checkout_id"], SnapshotOf(p),
                                              OmittingEmpty(args[p]))
            /\ Has(PutPayload(p), "line_items") => PutPayload(p)["line_items"] # <<>>
            /\ Has(PutPayload(p), "discounts")
               => PutPayload(p)["discounts"]["codes"] # <<>>
            /\ (Has(args[p], "line_items") /\ args[p]["line_items"] = <<>>
                  /\ Get(SnapshotOf(p), "line_items", <<>>) # <<>>)
               => /\ Has(PutPayload(p), "line_items")
                  /\ PutPayload(p)["line_items"] = SnapshotOf(p)["line_items"]

\* A second update, called with line_items=[], has sent the line items of
\* its snapshot.
EmptyItemsSentAsSnapshotReached ==
    \E p \in Procs :
        /\ UpdatePutSent(p) /\ calls = 2
        /\ args[p] = EmptyItemsArgs
        /\ got[p][1]["kind"] = "ok"
        /\ Len(SnapshotOf(p)["line_items"]) = 2
        /\ PutPayload(p)["line_items"] = SnapshotOf(p)["line_items"]
        /\ ~Has(PutPayload(p), "discounts")

\* C36: every PUT of an update or of a negotiation carries in its payload's
\* id the checkout id the operation was called with, which is the session id
\* of the request's URL; every PUT of a negotiation carries the currency of
\* the snapshot the GET returned, whatever currency the responses of the
\* phases report.
PutsKeepIdAndCurrency ==
    \A p \in Procs :
        (IsUpdate(p) \/ tool[p] = "set_fulfillment") =>
            \A i \in 1..Len(sent[p]) :
                sent[p][i]["method"] = "PUT" =>
                    /\ Has(sent[p][i]["json"], "id")
                    /\ sent[p][i]["json"]["id"] = args[p]["checkout_id"]
                    /\ sent[p][i]["url"] = <<"checkout-sessions", sent[p][i]["json"]["id"]>>
                    /\ tool[p] = "set_fulfillment"
                       => /\ Has(sent[p][i]["json"], "currency")
                          /\ sent[p][i]["json"]["currency"] = got[p][1]["body"]["currency"]

\* The option selection carries the snapshot's currency after two responses
\* that reported another.
OtherCurrencyNotAdoptedReached ==
    \E p \in Procs :
        /\ tool[p] = "set_fulfillment" /\ Len(sent[p]) = 4
        /\ got[p][1]["body"]["currency"] = "EUR"
        /\ Get(got[p][2]["body"], "currency", "none") = "GBP"
        /\ Get(got[p][3]["body"], "currency", "none") = "GBP"
        /\ sent[p][3]["json"]["currency"] = "EUR"
        /\ sent[p][4]["json"]["currency"] = "EUR"

\* C37: the destination the option selection names is the one chosen from
\* the first PUT's response and named in the destination selection; it is
\* not read again from the second PUT's response, whatever destinations that
\* response lists.
DestinationChosenOnce ==
    \A p \in Procs :
        (tool[p] = "set_fulfillment" /\ Len(sent[p]) >= 4)
        => /\ SentMethod(p, 4)["selected_destination_id"]
                = SentMethod(p, 3)["selected_destination_id"]
           /\ SentMethod(p, 4)["selected_destination_id"] = dest_id[p]
           /\ dest_id[p] = first_destination_id(got[p][2]["body"])

\* The option selection names dest_1 although the second PUT's response
\* lists dest_2 first.
OtherDestinationListedReached ==
    \E p \in Procs :
        /\ tool[p] = "set_fulfillment" /\ Len(sent[p]) = 4
        /\ first_destination_id(got[p][2]["body"]) = "dest_1"
        /\ first_destination_ok(got[p][3]["body"])
        /\ first_destination_id(got[p][3]["body"]) = "dest_2"
        /\ SentMethod(p, 4)["selected_destination_id"] = "dest_1"

\* Invocation p is a complete whose POST was answered with a session.
CompleteAnswered(p) ==
    /\ tool[p] = "complete" /\ pc[p] = "done" /\ Len(got[p]) = 1
    /\ got[p][1]["kind"] = "ok"
    /\ CheckoutSessionValid(got[p][1]["body"])

\* C38: the result of a complete holds order_id and order_url exactly when
\* the merchant's answer carries an order, whatever status the answer
\* reports; the status in the result is the answer's.
OrderKeysFollowOrderNotStatus ==
    \A p \in Procs :
        CompleteAnswered(p) =>
            /\ IsSuccess(result[p])
            /\ result[p]["status"] = got[p][1]["body"]["status"]
            /\ Has(result[p], "order_id") <=> Has(got[p][1]["body"], "order")
            /\ Has(result[p], "order_url") <=> Has(got[p][1]["body"], "order")

\* An answer with an order and a status other than complete gave a result
\* with the order's id.
OrderWithoutCompleteStatusReached ==
    \E p \in Procs :
        /\ CompleteAnswered(p)
        /\ Has(got[p][1]["body"], "order")
        /\ got[p][1]["body"]["status"] = "incomplete"
        /\ result[p]["status"] = "incomplete"
        /\ Has(result[p], "order_id") /\ result[p]["order_id"] = "order-abc-123"
        /\ Has(result[p], "order_url")

\* C39: for every well-formed totals list, the total ucp_checkout_set_fulfillment
\* computes on the raw response is the total the session built from the same
\* response returns: the amount of the first entry of type total, or 0.
RawTotalEqualsSessionTotal ==
    (pc[1] = "session_read" /\ pc[2] = "total_reported") =>
        LET I == EntriesOfType(data[1], "total")
        IN  /\ result[2]["total"] = result[1]["total"]
            /\ I = {} => result[2]["total"] = 0
            /\ I # {} => result[2]["total"]
                           = data[1]["totals"][CHOOSE i \in I : \A j \in I : i <= j]["amount"]

\* Both totals were computed for a list whose second entry of type total has
\* another amount than the first.
RawAndSessionTotalComparedReached ==
    /\ pc[1] = "session_read" /\ pc[2] = "total_reported"
    /\ Len(data[1]["totals"]) = 3
    /\ data[1]["totals"][1]["type"] = "discount"
    /\ data[1]["totals"][2]["type"] = "total"
    /\ data[1]["totals"][2]["amount"] = 350
    /\ data[1]["totals"][3]["type"] = "total"
    /\ data[1]["totals"][3]["amount"] = 3500
    /\ result[2]["total"] = 350
    /\ result[1]["total"] = 350

====
